---- MODULE Spec2Model ----
(***************************************************************************)
(* Route-finding engine of the bus_routes application                      *)
(* (src/bus_routes/views.py, src/bus_routes/models.py).                    *)
(*                                                                         *)
(* The persisted store is the BusStop table (bus_stops), the BusLine table *)
(* (the fixed set Lines) and the RouteSegment table (store).  The admin    *)
(* handlers add and delete RouteSegment rows; find_shortest_path,          *)
(* get_segment_details and search_route read them.                         *)
(*                                                                         *)
(* Spec: the admin builds any store of up to MaxSegments rows and          *)
(* find_shortest_path runs on it statement by statement.                   *)
(* SpecScenario: search_route (search_type bus_stop) runs query by query   *)
(* on the store of two lines, 10 and 20, while admin requests add or       *)
(* delete segments between its queries (views.py opens no transaction),    *)
(* and get_segment_details is called for a pair of stops both ways.        *)
(* The BusStop and BusLine tables do not change during a behaviour.        *)
(***************************************************************************)
EXTENDS Integers, Sequences, FiniteSets, TLC

\* ---------------------------------------------------------------- bounds
NumStops == 3
NumLines == 2
MaxOrder == 3
MaxSegments == 5
\* Admin edits made in one behaviour of SpecScenario.
MaxEdits == 1
\* Largest distance (km) and duration (minutes) the provider answers.
MaxKm == 1
MaxMinutes == 1
\* Rows of the RouteSearch log.
MaxSearches == 1
MaxNamedStops == 2
MaxLiveSegments == 4

Lines == 1..NumLines
Orders == 1..MaxOrder

\* Python's None for a stop id or a line id (ids of stored rows start at 1).
None == 0
\* float('inf') of the distances table.
Inf == 999
\* The 'N/A' of a distance or time that is not available.
NA == -1

\* BusLine.line_number of the line with primary key l (unique per line).
line_number(l) == 10 * l

VARIABLES
    bus_stops,      \* the BusStop table (primary keys)
    located,        \* the stops whose latitude and longitude are set
    names,          \* the name and road columns of the BusStop table
    store,          \* the RouteSegment table
    route_searches, \* the RouteSearch table: one (start, end) row per search
    edits,          \* admin edits made so far (counted in SpecScenario only)
    pc,             \* position of the running call
    fsp,            \* locals of find_shortest_path
    gsd,            \* locals and result of get_segment_details
    req,            \* locals and response of search_route
    lookup,         \* a call of get_bus_stop_object and its result
    between,        \* a call of find_stops_between and its result
    first_path,     \* the result of find_shortest_path, kept for a second call
    at_begin        \* history: the store as it was when the route query began

vars == <<bus_stops, located, names, store, route_searches, edits, pc, fsp, gsd, req,
          lookup, between, first_path, at_begin>>

\* Every RouteSegment row the admin form can create.
RouteSegment == [bus_line : Lines, bus_stop : bus_stops, order : Orders]

\* ------------------------------------------------------- store queries
\* RouteSegment.objects.filter(bus_line=l)
SegmentsOfLine(st, l) == {s \in st : s.bus_line = l}

MinOrder(S) == CHOOSE o \in {s.order : s \in S} : \A s \in S : o <= s.order
MaxOrderOf(S) == CHOOSE o \in {s.order : s \in S} : \A s \in S : o >= s.order

\* ORDER BY "order": every sequence of the rows of S in non-decreasing order;
\* the database leaves the order of rows with equal keys open.
RECURSIVE OrderedAsc(_)
OrderedAsc(S) ==
    IF S = {} THEN {<<>>}
    ELSE UNION {{<<x>> \o t : t \in OrderedAsc(S \ {x})} :
                x \in {y \in S : y.order = MinOrder(S)}}

\* ORDER BY "-order"
RECURSIVE OrderedDesc(_)
OrderedDesc(S) ==
    IF S = {} THEN {<<>>}
    ELSE UNION {{<<x>> \o t : t \in OrderedDesc(S \ {x})} :
                x \in {y \in S : y.order = MaxOrderOf(S)}}

\* RouteSegment.objects.all() under Meta.ordering (bus_line, order), grouped
\* by line and stably sorted by order: one ordered sequence per line.
segments_by_line(st) ==
    {f \in [Lines -> UNION {OrderedAsc(SegmentsOfLine(st, l)) : l \in Lines}] :
        \A l \in Lines : f[l] \in OrderedAsc(SegmentsOfLine(st, l))}

\* ---------------------------------------------------------- graph build
\* LineEdges with the first append only: the edge from i to i+1.
RECURSIVE LineEdges_OneWay(_, _, _)
LineEdges_OneWay(segments, l, i) ==
    IF i >= Len(segments) THEN <<>>
    ELSE << [from |-> segments[i].bus_stop, stop_id |-> segments[i + 1].bus_stop,
             line_id |-> l] >>
         \o LineEdges_OneWay(segments, l, i + 1)

\* The two appends made for each adjacent pair (i, i+1) of one line.
RECURSIVE LineEdges(_, _, _)
LineEdges(segments, l, i) ==
    IF i >= Len(segments) THEN <<>>
    ELSE << [from |-> segments[i].bus_stop, stop_id |-> segments[i + 1].bus_stop,
             line_id |-> l],
            [from |-> segments[i + 1].bus_stop, stop_id |-> segments[i].bus_stop,
             line_id |-> l] >>
         \o LineEdges(segments, l, i + 1)

\* All appends in the order the build makes them: lines by ascending id.
RECURSIVE AllEdges(_, _)
AllEdges(byLine, l) ==
    IF l > NumLines THEN <<>>
    ELSE LineEdges(byLine[l], l, 1) \o AllEdges(byLine, l + 1)

\* graph[stop]: the adjacency list of the stop, in append order.
BuildGraph(all_stops, byLine) ==
    [s \in all_stops |->
        LET From(e) == e.from = s
        IN  SelectSeq(AllEdges(byLine, 1), From)]

\* ------------------------------------------------------- priority search
\* Tuple order of the heap entries (cost, stop id, line id).
TupleLeq(a, b) ==
    \/ a[1] < b[1]
    \/ a[1] = b[1] /\ a[2] < b[2]
    \/ a[1] = b[1] /\ a[2] = b[2] /\ a[3] <= b[3]

\* heapq.heappop: the smallest entry.
HeapTop(q) == CHOOSE e \in q : \A f \in q : TupleLeq(e, f)

\* transfer_cost that charges the first line boarded like a change of line.
transfer_cost_ChargesFirstLine(current_line_id, neighbor_line_id) ==
    IF current_line_id # neighbor_line_id THEN 1 ELSE 0

\* Cost of taking an edge of line neighbor_line_id while on current_line_id.
transfer_cost(current_line_id, neighbor_line_id) ==
    IF current_line_id # None /\ current_line_id # neighbor_line_id THEN 1 ELSE 0

\* Relax that records the new cost and pushes the entry but never writes the
\* predecessor.
RECURSIVE Relax_KeepsPredecessor(_, _, _, _, _, _)
Relax_KeepsPredecessor(f, neighbors, i, cost, current_stop_id, current_line_id) ==
    IF i > Len(neighbors) THEN f
    ELSE LET n == neighbors[i]
             new_cost == cost + transfer_cost(current_line_id, n.line_id)
         IN  IF new_cost < f.distances[n.stop_id]
             THEN Relax_KeepsPredecessor([f EXCEPT
                            !.distances[n.stop_id] = new_cost,
                            !.priority_queue = @ \cup {<<new_cost, n.stop_id, n.line_id>>}],
                        neighbors, i + 1, cost, current_stop_id, current_line_id)
             ELSE Relax_KeepsPredecessor(f, neighbors, i + 1, cost, current_stop_id,
                                         current_line_id)

\* Relax with the test written "<=": an equal cost replaces what is recorded.
RECURSIVE Relax_AcceptsEqualCost(_, _, _, _, _, _)
Relax_AcceptsEqualCost(f, neighbors, i, cost, current_stop_id, current_line_id) ==
    IF i > Len(neighbors) THEN f
    ELSE LET n == neighbors[i]
             new_cost == cost + transfer_cost(current_line_id, n.line_id)
         IN  IF new_cost <= f.distances[n.stop_id]
             THEN Relax_AcceptsEqualCost([f EXCEPT
                            !.distances[n.stop_id] = new_cost,
                            !.predecessors[n.stop_id] = <<current_stop_id, n.line_id>>,
                            !.priority_queue = @ \cup {<<new_cost, n.stop_id, n.line_id>>}],
                        neighbors, i + 1, cost, current_stop_id, current_line_id)
             ELSE Relax_AcceptsEqualCost(f, neighbors, i + 1, cost, current_stop_id,
                                         current_line_id)

\* The for-loop over graph[current_stop_id], from its i-th neighbor on.
RECURSIVE Relax(_, _, _, _, _, _)
Relax(f, neighbors, i, cost, current_stop_id, current_line_id) ==
    IF i > Len(neighbors) THEN f
    ELSE LET n == neighbors[i]
             new_cost == cost + transfer_cost(current_line_id, n.line_id)
         IN  IF new_cost < f.distances[n.stop_id]
             THEN Relax([f EXCEPT
                            !.distances[n.stop_id] = new_cost,
                            !.predecessors[n.stop_id] = <<current_stop_id, n.line_id>>,
                            !.priority_queue = @ \cup {<<new_cost, n.stop_id, n.line_id>>}],
                        neighbors, i + 1, cost, current_stop_id, current_line_id)
             ELSE Relax(f, neighbors, i + 1, cost, current_stop_id, current_line_id)

\* SearchIteration with the stale-entry test written ">=": an entry whose cost
\* equals the recorded best is skipped too.
SearchIteration_SkipsEqualCost(f) ==
    LET top == HeapTop(f.priority_queue)
        g == [f EXCEPT !.priority_queue = @ \ {top}]
    IN  IF top[1] >= g.distances[top[2]] THEN g
        ELSE IF top[2] = g.end_stop_id
             THEN [g EXCEPT !.shortest_path_found = TRUE]
             ELSE Relax(g, g.graph[top[2]], 1, top[1], top[2], top[3])

\* One iteration of "while priority_queue".
SearchIteration(f) ==
    LET top == HeapTop(f.priority_queue)
        g == [f EXCEPT !.priority_queue = @ \ {top}]
    IN  IF top[1] > g.distances[top[2]] THEN g
        ELSE IF top[2] = g.end_stop_id
             THEN [g EXCEPT !.shortest_path_found = TRUE]
             ELSE Relax(g, g.graph[top[2]], 1, top[1], top[2], top[3])

\* Locals of find_shortest_path after the graph build and the initialisation.
SearchInit(all_stops, start_stop_id, end_stop_id, byLine) ==
    [ start_stop_id |-> start_stop_id,
      end_stop_id |-> end_stop_id,
      graph |-> BuildGraph(all_stops, byLine),
      distances |-> [s \in all_stops |-> IF s = start_stop_id THEN 0 ELSE Inf],
      predecessors |-> [s \in all_stops |-> <<None, None>>],
      priority_queue |-> {<<0, start_stop_id, None>>},
      shortest_path_found |-> FALSE,
      path |-> <<>>,
      current_stop_id |-> end_stop_id,
      reads |-> 2,
      raised |-> FALSE,
      result |-> <<>> ]

\* The locals before the call and on the early return: nothing read or built.
\* An early return that answers a one-leg path from the stop to itself.
NoSearch_SelfLeg(start_stop_id, end_stop_id) ==
    [ start_stop_id |-> start_stop_id,
      end_stop_id |-> end_stop_id,
      graph |-> <<>>,
      distances |-> <<>>,
      predecessors |-> <<>>,
      priority_queue |-> {},
      shortest_path_found |-> FALSE,
      path |-> <<>>,
      current_stop_id |-> None,
      reads |-> 0,
      raised |-> FALSE,
      result |-> IF start_stop_id = None THEN <<>>
                 ELSE << [ start_stop_id |-> start_stop_id,
                           end_stop_id |-> end_stop_id,
                           line_id |-> 1,
                           line_number |-> line_number(1) ] >> ]

NoSearch(start_stop_id, end_stop_id) ==
    [ start_stop_id |-> start_stop_id,
      end_stop_id |-> end_stop_id,
      graph |-> <<>>,
      distances |-> <<>>,
      predecessors |-> <<>>,
      priority_queue |-> {},
      shortest_path_found |-> FALSE,
      path |-> <<>>,
      current_stop_id |-> None,
      reads |-> 0,
      raised |-> FALSE,
      result |-> <<>> ]

Reverse(s) == [i \in 1..Len(s) |-> s[Len(s) + 1 - i]]

\* ReconstructIteration that extends the leg at hand whatever the line of the
\* predecessor step.
ReconstructIteration_MergesAll(f) ==
    LET pred == f.predecessors[f.current_stop_id]
        prev_stop_id == pred[1]
        prev_line_id == pred[2]
        n == Len(f.path)
    IN  IF prev_stop_id = None
        THEN [f EXCEPT !.raised = TRUE, !.path = <<>>]
        ELSE [f EXCEPT
                !.reads = @ + 1,
                !.path = IF n = 0
                         THEN Append(f.path,
                                     [start_stop_id |-> prev_stop_id,
                                      end_stop_id |-> f.current_stop_id,
                                      line_id |-> prev_line_id,
                                      line_number |-> line_number(prev_line_id)])
                         ELSE [f.path EXCEPT ![n].start_stop_id = prev_stop_id],
                !.current_stop_id = prev_stop_id]

\* ReconstructIteration whose merge leaves the start of the leg where it was.
ReconstructIteration_KeepsLegStart(f) ==
    LET pred == f.predecessors[f.current_stop_id]
        prev_stop_id == pred[1]
        prev_line_id == pred[2]
        n == Len(f.path)
    IN  IF prev_stop_id = None
        THEN [f EXCEPT !.raised = TRUE, !.path = <<>>]
        ELSE [f EXCEPT
                !.reads = @ + 1,
                !.path = IF n = 0 \/ f.path[n].line_id # prev_line_id
                         THEN Append(f.path,
                                     [start_stop_id |-> prev_stop_id,
                                      end_stop_id |-> f.current_stop_id,
                                      line_id |-> prev_line_id,
                                      line_number |-> line_number(prev_line_id)])
                         ELSE f.path,
                !.current_stop_id = prev_stop_id]

\* ReconstructIteration without the merge: every predecessor step is a leg.
ReconstructIteration_NoMerge(f) ==
    LET pred == f.predecessors[f.current_stop_id]
        prev_stop_id == pred[1]
        prev_line_id == pred[2]
    IN  IF prev_stop_id = None
        THEN [f EXCEPT !.raised = TRUE, !.path = <<>>]
        ELSE [f EXCEPT
                !.reads = @ + 1,
                !.path = Append(f.path,
                                [start_stop_id |-> prev_stop_id,
                                 end_stop_id |-> f.current_stop_id,
                                 line_id |-> prev_line_id,
                                 line_number |-> line_number(prev_line_id)]),
                !.current_stop_id = prev_stop_id]

\* One iteration of "while current_stop_id != start_stop_id".
ReconstructIteration(f) ==
    LET pred == f.predecessors[f.current_stop_id]
        prev_stop_id == pred[1]
        prev_line_id == pred[2]
        n == Len(f.path)
    IN  IF prev_stop_id = None
        THEN [f EXCEPT !.raised = TRUE, !.path = <<>>]
        ELSE [f EXCEPT
                !.reads = @ + 1,
                !.path = IF n = 0 \/ f.path[n].line_id # prev_line_id
                         THEN Append(f.path,
                                     [start_stop_id |-> prev_stop_id,
                                      end_stop_id |-> f.current_stop_id,
                                      line_id |-> prev_line_id,
                                      line_number |-> line_number(prev_line_id)])
                         ELSE [f.path EXCEPT ![n].start_stop_id = prev_stop_id],
                !.current_stop_id = prev_stop_id]

\* ------------------------------------------- find_shortest_path as a whole
RECURSIVE RunSearch(_)
RunSearch(f) ==
    IF f.priority_queue = {} \/ f.shortest_path_found THEN f
    ELSE RunSearch(SearchIteration(f))

RECURSIVE RunReconstruct(_)
RunReconstruct(f) ==
    IF f.raised THEN f
    ELSE IF f.current_stop_id = f.start_stop_id
         THEN [f EXCEPT !.result = Reverse(f.path)]
         ELSE RunReconstruct(ReconstructIteration(f))

\* The locals of find_shortest_path(start_stop_id, end_stop_id) when it
\* returns, the segments having been read as byLine.
find_shortest_path(all_stops, byLine, start_stop_id, end_stop_id) ==
    IF start_stop_id = end_stop_id THEN NoSearch(start_stop_id, end_stop_id)
    ELSE LET f == RunSearch(SearchInit(all_stops, start_stop_id, end_stop_id, byLine))
         IN  IF f.shortest_path_found THEN RunReconstruct(f) ELSE f

\* -------------------------------------------------- get_segment_details
\* RouteSegment.objects.filter(bus_line=l, bus_stop=s).first(): the order of
\* the row that Meta.ordering puts first, None when the line has no such row.
FirstOrder(st, l, s) ==
    LET rows == {r \in st : r.bus_line = l /\ r.bus_stop = s}
    IN  IF rows = {} THEN None ELSE MinOrder(rows)

\* The slice query of lines 363-374, in every order the database may give.
SliceRows(st, l, start_order, end_order) ==
    IF start_order <= end_order
    THEN OrderedAsc({r \in SegmentsOfLine(st, l) :
                        r.order >= start_order /\ r.order <= end_order})
    ELSE OrderedDesc({r \in SegmentsOfLine(st, l) :
                        r.order <= start_order /\ r.order >= end_order})

\* What the provider can answer to one call: nothing usable (error, timeout,
\* malformed or non-Ok response), or a distance and a duration.
NoAnswer == <<>>
ProviderAnswers ==
    {NoAnswer} \cup
    {<<[distance_km |-> d, duration_minutes |-> m]>> : d \in 0..MaxKm, m \in 0..MaxMinutes}

\* route_stops_coords: the stops of the slice that have both coordinates
\* (lines 382-386; a coordinate that is null or 0 counts as absent).
route_stops_coords(segments, loc) ==
    LET Located(r) == r.bus_stop \in loc
    IN  SelectSeq(segments, Located)

\* get_route_details_from_osrm: no request is sent for fewer than two points.
ProviderCalled(coords_list) == Len(coords_list) >= 2

get_route_details_from_osrm(coords_list, answer) ==
    IF ProviderCalled(coords_list) THEN answer ELSE NoAnswer

\* A provider that is asked a second time when the first request fails.
ProviderRequests_Retry(coords_list, answer) ==
    IF ProviderCalled(coords_list) THEN (IF answer = NoAnswer THEN 2 ELSE 1) ELSE 0

\* The HTTP requests one call of get_route_details_from_osrm sends: the one
\* requests.get of line 34, whatever comes back.
ProviderRequests(coords_list, answer) ==
    IF ProviderCalled(coords_list) THEN 1 ELSE 0

\* The dictionary returned by lines 379-408 for a non-empty slice.
segment_data(segments, loc, answer) ==
    LET details == get_route_details_from_osrm(route_stops_coords(segments, loc), answer)
    IN  [ stops_count |-> Len(segments),
          total_distance_km |-> IF details = NoAnswer THEN NA ELSE details[1].distance_km,
          total_time_minutes |-> IF details = NoAnswer THEN NA
                                 ELSE details[1].duration_minutes,
          route_stops |-> [i \in 1..Len(segments) |->
                             [ id |-> segments[i].bus_stop,
                               order |-> segments[i].order,
                               has_coords |-> segments[i].bus_stop \in loc ]] ]

\* Every value get_segment_details(bus_line, start_stop, end_stop) can return
\* on the store st with one provider answer: <<>> is None, <<d>> the dict d.
get_segment_details(st, loc, bus_line, start_stop, end_stop, answer) ==
    LET start_order == FirstOrder(st, bus_line, start_stop)
        end_order == FirstOrder(st, bus_line, end_stop)
    IN  IF start_order = None \/ end_order = None THEN {<<>>}
        ELSE {IF segments = <<>> THEN <<>> ELSE <<segment_data(segments, loc, answer)>> :
                segments \in SliceRows(st, bus_line, start_order, end_order)}

StopIds(data) == [i \in 1..Len(data.route_stops) |-> data.route_stops[i].id]

NoSegmentCall ==
    [ bus_line |-> None, start_stop |-> None, end_stop |-> None,
      data |-> <<>>, earlier |-> <<>> ]

\* ------------------------------------------------------ stop name resolver
\* A string is a sequence of characters; these are the characters used.
Letters == {"a", "A", "b", "r", "R"}

\* Case folding of the __iexact lookups.
Lower(c) == IF c = "A" THEN "a" ELSE IF c = "R" THEN "r" ELSE c

iexact(x, y) ==
    /\ Len(x) = Len(y)
    /\ \A i \in 1..Len(x) : Lower(x[i]) = Lower(y[i])

\* str.strip() for the blank character.
RECURSIVE strip(_)
strip(s) ==
    IF s = <<>> THEN s
    ELSE IF Head(s) = " " THEN strip(Tail(s))
    ELSE IF s[Len(s)] = " " THEN strip(SubSeq(s, 1, Len(s) - 1))
    ELSE s

\* The position of the last "(" of s, 0 when s has none.
LastOpen(s) ==
    IF \E i \in 1..Len(s) : s[i] = "("
    THEN CHOOSE i \in 1..Len(s) : s[i] = "(" /\ \A j \in (i + 1)..Len(s) : s[j] # "("
    ELSE 0

\* An optional string: <<>> is None (null), <<s>> is the string s.
Null == <<>>
Some(s) == <<s>>

\* parse_stop_name_with_road: rsplit('(', 1) when the string has a "(" and
\* ends with ")"; otherwise the whole string is the name and the road is None.
parse_stop_name_with_road(full_name) ==
    IF LastOpen(full_name) # 0 /\ full_name[Len(full_name)] = ")"
    THEN LET i == LastOpen(full_name)
         IN  [ stop_name |-> strip(SubSeq(full_name, 1, i - 1)),
               road_name |-> Some(strip(SubSeq(full_name, i + 1, Len(full_name) - 1))) ]
    ELSE [stop_name |-> full_name, road_name |-> Null]

\* Q(name_en__iexact=stop_name) | Q(name_mm__iexact=stop_name)
NameMatch(row, stop_name) ==
    iexact(row.name_en, stop_name) \/ iexact(row.name_mm, stop_name)

\* Q(name_en__iexact=.., road_name_en__iexact=..) | Q(name_mm.., road_name_mm..)
NameRoadMatch(row, stop_name, road_name) ==
    \/ /\ iexact(row.name_en, stop_name)
       /\ row.road_name_en # Null /\ iexact(row.road_name_en[1], road_name)
    \/ /\ iexact(row.name_mm, stop_name)
       /\ row.road_name_mm # Null /\ iexact(row.road_name_mm[1], road_name)

\* NoRoadMatch that takes only a null road for an absent one.
NoRoadMatch_NullOnly(row, stop_name) ==
    \/ iexact(row.name_en, stop_name) /\ row.road_name_en = Null
    \/ iexact(row.name_mm, stop_name) /\ row.road_name_mm = Null

\* no_road_query: the name with a road that is null or ''.
NoRoadMatch(row, stop_name) ==
    \/ iexact(row.name_en, stop_name) /\ row.road_name_en \in {Null, Some(<<>>)}
    \/ iexact(row.name_mm, stop_name) /\ row.road_name_mm \in {Null, Some(<<>>)}

\* QuerySet.first() of an unordered BusStop query: the lowest primary key.
FirstStop(S) == IF S = {} THEN None ELSE CHOOSE s \in S : \A x \in S : s <= x

\* get_bus_stop_object that never looks at the road.
get_bus_stop_object_NameOnly(nm, stop_name_raw) ==
    LET p == parse_stop_name_with_road(stop_name_raw)
    IN  FirstStop({s \in DOMAIN nm : NameMatch(nm[s], p.stop_name)})

\* get_bus_stop_object on the BusStop rows nm: the stop found, or None.
get_bus_stop_object(nm, stop_name_raw) ==
    LET p == parse_stop_name_with_road(stop_name_raw)
        stop_name == p.stop_name
        by_name == {s \in DOMAIN nm : NameMatch(nm[s], stop_name)}
    IN  IF p.road_name # Null /\ p.road_name[1] # <<>>
        THEN LET by_road == {s \in DOMAIN nm :
                                NameRoadMatch(nm[s], stop_name, p.road_name[1])}
             IN  IF by_road # {} THEN FirstStop(by_road) ELSE FirstStop(by_name)
        ELSE LET no_road == {s \in DOMAIN nm : NoRoadMatch(nm[s], stop_name)}
             IN  IF no_road # {} THEN FirstStop(no_road) ELSE FirstStop(by_name)

\* The rows of stops that carry no road: stop s is named "a" s times over.
RECURSIVE Repeat(_, _)
Repeat(c, n) == IF n = 0 THEN <<>> ELSE <<c>> \o Repeat(c, n - 1)

PlainNames(stops) ==
    [s \in stops |-> [ name_en |-> Repeat("a", s), name_mm |-> Repeat("b", s),
                       road_name_en |-> Null, road_name_mm |-> Null ]]

NoLookup == [stop_name_raw |-> <<>>, stop |-> None]

\* ------------------------------------------------------------ search_route
\* The lines with a segment at either of the two stops.
LinesServingEither(st, a, b) ==
    {l \in Lines : \/ \E r \in st : r.bus_line = l /\ r.bus_stop = a
                   \/ \E r \in st : r.bus_line = l /\ r.bus_stop = b}

\* BusLine.objects.filter(route_segments__bus_stop=a)
\*     .filter(route_segments__bus_stop=b).distinct()
LinesServingBoth(st, a, b) ==
    {l \in Lines : /\ \E r \in st : r.bus_line = l /\ r.bus_stop = a
                   /\ \E r \in st : r.bus_line = l /\ r.bus_stop = b}

\* .order_by('line_number')
RECURSIVE ByLineNumber(_)
ByLineNumber(S) ==
    IF S = {} THEN <<>>
    ELSE LET l == CHOOSE x \in S : \A y \in S : line_number(x) <= line_number(y)
         IN  <<l>> \o ByLineNumber(S \ {l})

direct_bus_lines(st, a, b) == ByLineNumber(LinesServingBoth(st, a, b))

NoRequest ==
    [ start_stop_name_raw |-> <<>>, end_stop_name_raw |-> <<>>,
      start_stop_obj |-> None, end_stop_obj |-> None,
      results |-> <<>>, error_message |-> "",
      search_count |-> 0,
      direct_exists |-> FALSE,
      path_searched |-> FALSE,
      graph |-> <<>>,
      transfer_path |-> <<>>, num_transfers |-> 0,
      transfer_details |-> <<>>,
      total_distance |-> 0, total_time |-> 0,
      leg |-> 0, start_order |-> None, end_order |-> None,
      provider_calls |-> 0 ]

\* ------------------------------------------------------ find_stops_between
\* The last position of stop s in route_segments (the loop of line 435 keeps
\* the last match).
LastPosition(route_segments, s) ==
    IF \E i \in 1..Len(route_segments) : route_segments[i].bus_stop = s
    THEN CHOOSE i \in 1..Len(route_segments) :
            /\ route_segments[i].bus_stop = s
            /\ \A j \in (i + 1)..Len(route_segments) : route_segments[j].bus_stop # s
    ELSE None

\* lines 427-455 for one line whose segments were read as route_segments.
BetweenEntry(l, route_segments, start_stop, end_stop) ==
    LET sp == LastPosition(route_segments, start_stop)
        ep == LastPosition(route_segments, end_stop)
        start_position == IF sp > ep THEN ep ELSE sp
        end_position == IF sp > ep THEN sp ELSE ep
        between_segments == SubSeq(route_segments, start_position, end_position)
    IN  [ bus_line |-> l,
          stops |-> [i \in 1..Len(between_segments) |-> between_segments[i].bus_stop],
          total_stops |-> Len(between_segments),
          orders |-> [i \in 1..Len(between_segments) |-> between_segments[i].order] ]

\* The result lists for the lines L, in every order the unordered BusLine
\* query may give them and with every order the database may give to ties.
RECURSIVE BetweenResults(_, _, _, _)
BetweenResults(st, L, start_stop, end_stop) ==
    IF L = {} THEN {<<>>}
    ELSE UNION {{(IF LastPosition(route_segments, start_stop) # None
                        /\ LastPosition(route_segments, end_stop) # None
                     THEN <<BetweenEntry(l, route_segments, start_stop, end_stop)>>
                     ELSE <<>>) \o rest :
                    route_segments \in OrderedAsc(SegmentsOfLine(st, l)),
                    rest \in BetweenResults(st, L \ {l}, start_stop, end_stop)} :
                l \in L}

\* Every value find_stops_between(start_stop, end_stop) can return on st.
find_stops_between(st, start_stop, end_stop) ==
    BetweenResults(st, LinesServingBoth(st, start_stop, end_stop), start_stop, end_stop)

NoBetween == [start_stop |-> None, end_stop |-> None, results |-> <<>>]

\* History for the properties, not data of the program: the RouteSegment
\* table and the number of admin edits at the moment a route query began.
NoHistory == [store |-> {}, edits |-> 0]

\* --------------------------------------------------------------- actions
Init ==
    /\ bus_stops = 1..NumStops
    /\ located = bus_stops
    /\ store = {}
    /\ route_searches = <<>>
    /\ edits = 0
    /\ pc = "idle"
    /\ fsp = NoSearch(None, None)
    /\ gsd = NoSegmentCall
    /\ req = NoRequest
    /\ names = PlainNames(bus_stops)
    /\ lookup = NoLookup
    /\ between = NoBetween
    /\ first_path = <<>>
    /\ at_begin = NoHistory

\* admin_route_segment_add: RouteSegment.objects.create; the unique_together
\* constraint (bus_line, bus_stop, order) rejects a duplicate row.
admin_route_segment_add ==
    /\ pc = "idle"
    /\ Cardinality(store) < MaxSegments
    /\ \E seg \in RouteSegment \ store : store' = store \cup {seg}
    /\ UNCHANGED <<bus_stops, located, names, lookup, between, first_path, at_begin,
                   route_searches, edits, pc, fsp, gsd, req>>

\* admin_route_segment_delete: segment.delete()
admin_route_segment_delete ==
    /\ pc = "idle"
    /\ \E seg \in store : store' = store \ {seg}
    /\ UNCHANGED <<bus_stops, located, names, lookup, between, first_path, at_begin,
                   route_searches, edits, pc, fsp, gsd, req>>

\* find_shortest_path_begin without the start == end test of line 279.
find_shortest_path_begin_NoEarlyReturn ==
    /\ pc = "idle"
    /\ \E start_stop_id \in bus_stops, end_stop_id \in bus_stops :
          \E byLine \in segments_by_line(store) :
              /\ fsp' = SearchInit(bus_stops, start_stop_id, end_stop_id, byLine)
              /\ pc' = "fsp_search"
    /\ UNCHANGED <<bus_stops, located, names, lookup, between, first_path, at_begin,
                   store, route_searches, edits, gsd, req>>

\* find_shortest_path, lines 278-304: early return, or the two store reads,
\* the graph build and the initialisation of the search.
find_shortest_path_begin ==
    /\ pc = "idle"
    /\ \E start_stop_id \in bus_stops, end_stop_id \in bus_stops :
          IF start_stop_id = end_stop_id
          THEN /\ fsp' = NoSearch(start_stop_id, end_stop_id)
               /\ pc' = "fsp_done"
          ELSE \E byLine \in segments_by_line(store) :
                  /\ fsp' = SearchInit(bus_stops, start_stop_id, end_stop_id, byLine)
                  /\ pc' = "fsp_search"
    /\ UNCHANGED <<bus_stops, located, names, lookup, between, first_path, at_begin,
                   store, route_searches, edits, gsd, req>>

\* lines 306-326: one iteration of the search loop.
find_shortest_path_search ==
    /\ pc = "fsp_search"
    /\ fsp.priority_queue # {}
    /\ ~fsp.shortest_path_found
    /\ fsp' = SearchIteration(fsp)
    /\ UNCHANGED <<bus_stops, located, names, lookup, between, first_path, at_begin,
                   store, route_searches, edits, pc, gsd, req>>

\* lines 328-332: the loop has ended; no path, or start of the reconstruction.
find_shortest_path_after_search ==
    /\ pc = "fsp_search"
    /\ fsp.priority_queue = {} \/ fsp.shortest_path_found
    /\ IF fsp.shortest_path_found
       THEN pc' = "fsp_reconstruct" /\ UNCHANGED fsp
       ELSE pc' = "fsp_done" /\ fsp' = [fsp EXCEPT !.result = <<>>]
    /\ UNCHANGED <<bus_stops, located, names, lookup, between, first_path, at_begin,
                   store, route_searches, edits, gsd, req>>

\* lines 333-350: one iteration of the reconstruction loop.
find_shortest_path_reconstruct ==
    /\ pc = "fsp_reconstruct"
    /\ fsp.current_stop_id # fsp.start_stop_id
    /\ LET g == ReconstructIteration(fsp)
       IN  /\ fsp' = g
           /\ pc' = IF g.raised THEN "fsp_done" ELSE "fsp_reconstruct"
    /\ UNCHANGED <<bus_stops, located, names, lookup, between, first_path, at_begin,
                   store, route_searches, edits, gsd, req>>

\* lines 352-353: path.reverse(); return path
find_shortest_path_return ==
    /\ pc = "fsp_reconstruct"
    /\ fsp.current_stop_id = fsp.start_stop_id
    /\ fsp' = [fsp EXCEPT !.result = Reverse(fsp.path)]
    /\ pc' = "fsp_done"
    /\ UNCHANGED <<bus_stops, located, names, lookup, between, first_path, at_begin,
                   store, route_searches, edits, gsd, req>>

\* The caller takes the result; the locals go away.
find_shortest_path_end ==
    /\ pc = "fsp_done"
    /\ pc' = "idle"
    /\ fsp' = NoSearch(None, None)
    /\ UNCHANGED <<bus_stops, located, names, lookup, between, first_path, at_begin,
                   store, route_searches, edits, gsd, req>>

Next ==
    \/ admin_route_segment_add
    \/ admin_route_segment_delete
    \/ find_shortest_path_begin
    \/ find_shortest_path_search
    \/ find_shortest_path_after_search
    \/ find_shortest_path_reconstruct
    \/ find_shortest_path_return
    \/ find_shortest_path_end

\* The admin edits segments while no call runs; find_shortest_path is applied
\* to every pair of stops of every store the admin can build.
Spec == Init /\ [][Next]_vars

\* Every store the admin can build with up to MaxLiveSegments segments.
InitAnyStore ==
    /\ bus_stops = 1..NumStops
    /\ located = bus_stops
    /\ store \in {S \in SUBSET RouteSegment : Cardinality(S) <= MaxLiveSegments}
    /\ route_searches = <<>>
    /\ edits = 0
    /\ pc = "idle"
    /\ fsp = NoSearch(None, None)
    /\ gsd = NoSegmentCall
    /\ req = NoRequest
    /\ names = PlainNames(bus_stops)
    /\ lookup = NoLookup
    /\ between = NoBetween
    /\ first_path = <<>>
    /\ at_begin = NoHistory

NextCall ==
    \/ find_shortest_path_begin
    \/ find_shortest_path_search
    \/ find_shortest_path_after_search
    \/ find_shortest_path_reconstruct
    \/ find_shortest_path_return
    \/ find_shortest_path_end

\* Calls of find_shortest_path on a store that stays as it is. A call that
\* has begun goes on: find_shortest_path waits for nothing between its
\* statements, so each enabled step of a call is taken.
SpecTerminates ==
    /\ InitAnyStore /\ [][NextCall]_vars
    /\ WF_vars(\/ find_shortest_path_search
               \/ find_shortest_path_after_search
               \/ find_shortest_path_reconstruct
               \/ find_shortest_path_return)

\* ------------------------------------------- the store of two lines, 10 and 20
\* Stops 1..4; line 10 (id 1) visits 1, 2, 3 and line 20 (id 2) visits 3, 4.
ScenarioStops == 1..4

ScenarioStore ==
    { [bus_line |-> 1, bus_stop |-> 1, order |-> 1],
      [bus_line |-> 1, bus_stop |-> 2, order |-> 2],
      [bus_line |-> 1, bus_stop |-> 3, order |-> 3],
      [bus_line |-> 2, bus_stop |-> 3, order |-> 1],
      [bus_line |-> 2, bus_stop |-> 4, order |-> 2] }

\* A stop may have been created without coordinates (admin_bus_stop_add).
InitScenario ==
    /\ bus_stops = ScenarioStops
    /\ \E s \in bus_stops : located \in {bus_stops, bus_stops \ {s}}
    /\ store = ScenarioStore
    /\ route_searches = <<>>
    /\ edits = 0
    /\ pc = "idle"
    /\ fsp = NoSearch(None, None)
    /\ gsd = NoSegmentCall
    /\ req = NoRequest
    /\ names = PlainNames(bus_stops)
    /\ lookup = NoLookup
    /\ between = NoBetween
    /\ first_path = <<>>
    /\ at_begin = NoHistory

\* The admin's requests run beside a route query. views.py opens no
\* transaction, so each query of search_route is its own statement and an
\* admin's commit can fall between any two of them.
AtQuery ==
    pc \in {"idle", "sr_direct_exists", "sr_direct_list", "sr_find_path",
            "sr_leg_start", "sr_leg_end", "sr_leg_slice"}

concurrent_route_segment_add ==
    /\ AtQuery
    /\ edits < MaxEdits
    /\ \E seg \in RouteSegment \ store : store' = store \cup {seg}
    /\ edits' = edits + 1
    /\ UNCHANGED <<bus_stops, located, names, lookup, between, first_path, at_begin,
                   route_searches, pc, fsp, gsd, req>>

concurrent_route_segment_delete ==
    /\ AtQuery
    /\ edits < MaxEdits
    /\ \E seg \in store : store' = store \ {seg}
    /\ edits' = edits + 1
    /\ UNCHANGED <<bus_stops, located, names, lookup, between, first_path, at_begin,
                   route_searches, pc, fsp, gsd, req>>

\* ------------------------------------------- search_route, search_type bus_stop
\* The strings typed into the two fields of the search form: nothing, a
\* blank, a name no stop has, or the English name of a stop.
RouteQueryStrings ==
    {<<>>, <<" ">>, <<"r">>} \cup {names[s].name_en : s \in bus_stops}

DirectResult(l, a, b) ==
    [ bus_line_number |-> line_number(l), route_type |-> "available_bus_line",
      start_stop_id |-> a, end_stop_id |-> b ]

\* lines 571-577: the leg as it is appended to transfer_details.
LegDetails(data, l, a, b) ==
    [ bus_line_number |-> line_number(l), start_stop |-> a, end_stop |-> b,
      stops_count |-> data.stops_count,
      distance_km |-> data.total_distance_km,
      time_minutes |-> data.total_time_minutes,
      stops_on_this_segment |-> data.route_stops ]

\* lines 588-594
TransferResult(r) ==
    [ route_type |-> "transfer",
      transfer_details |-> r.transfer_details,
      total_distance_km |-> IF r.total_distance > 0 THEN r.total_distance ELSE NA,
      total_time_minutes |-> IF r.total_time > 0 THEN r.total_time ELSE NA,
      num_transfers |-> r.num_transfers ]

\* The end of one pass of the loop of line 562: the next leg, or lines 587-596.
AfterLeg(r) ==
    IF r.leg < Len(r.transfer_path)
    THEN [r EXCEPT !.leg = @ + 1, !.start_order = None, !.end_order = None]
    ELSE IF r.transfer_details # <<>>
         THEN [r EXCEPT !.results = <<TransferResult(r)>>]
         ELSE [r EXCEPT !.error_message = "no_valid_transfer"]

PcAfterLeg(r) == IF r.leg < Len(r.transfer_path) THEN "sr_leg_start" ELSE "sr_done"

\* search_route_begin that writes the RouteSearch row before it looks whether
\* the two stops resolved.
search_route_begin_LogsUnresolved ==
    /\ pc = "idle"
    /\ \E start_stop \in RouteQueryStrings, end_stop \in RouteQueryStrings :
          LET start_stop_name_raw == strip(start_stop)
              end_stop_name_raw == strip(end_stop)
              start_stop_obj == get_bus_stop_object(names, start_stop_name_raw)
              end_stop_obj == get_bus_stop_object(names, end_stop_name_raw)
              r == [NoRequest EXCEPT !.start_stop_name_raw = start_stop_name_raw,
                                     !.end_stop_name_raw = end_stop_name_raw]
          IN  IF start_stop_name_raw = <<>> \/ end_stop_name_raw = <<>>
              THEN /\ req' = [r EXCEPT !.error_message = "enter_both"]
                   /\ pc' = "sr_done"
                   /\ UNCHANGED <<route_searches, at_begin>>
              ELSE IF start_stop_obj = None \/ end_stop_obj = None
                   THEN /\ req' = [r EXCEPT !.start_stop_obj = start_stop_obj,
                                            !.end_stop_obj = end_stop_obj,
                                            !.error_message = "invalid_stop"]
                        /\ pc' = "sr_done"
                        /\ Len(route_searches) < MaxSearches
                        /\ route_searches' =
                               Append(route_searches, <<start_stop_obj, end_stop_obj>>)
                        /\ UNCHANGED at_begin
                   ELSE /\ Len(route_searches) < MaxSearches
                        /\ route_searches' =
                               Append(route_searches, <<start_stop_obj, end_stop_obj>>)
                        /\ req' = [r EXCEPT
                                      !.start_stop_obj = start_stop_obj,
                                      !.end_stop_obj = end_stop_obj,
                                      !.search_count =
                                          Cardinality({i \in 1..Len(route_searches') :
                                              route_searches'[i] =
                                                  <<start_stop_obj, end_stop_obj>>})]
                        /\ at_begin' = [store |-> store, edits |-> edits]
                        /\ pc' = "sr_direct_exists"
    /\ UNCHANGED <<bus_stops, located, names, lookup, between, first_path,
                   store, edits, fsp, gsd>>

\* search_route_begin that answers an unresolved stop with the message of a
\* route that was not found.
search_route_begin_NoRouteForUnresolved ==
    /\ pc = "idle"
    /\ \E start_stop \in RouteQueryStrings, end_stop \in RouteQueryStrings :
          LET start_stop_name_raw == strip(start_stop)
              end_stop_name_raw == strip(end_stop)
              start_stop_obj == get_bus_stop_object(names, start_stop_name_raw)
              end_stop_obj == get_bus_stop_object(names, end_stop_name_raw)
              r == [NoRequest EXCEPT !.start_stop_name_raw = start_stop_name_raw,
                                     !.end_stop_name_raw = end_stop_name_raw]
          IN  IF start_stop_name_raw = <<>> \/ end_stop_name_raw = <<>>
              THEN /\ req' = [r EXCEPT !.error_message = "enter_both"]
                   /\ pc' = "sr_done"
                   /\ UNCHANGED <<route_searches, at_begin>>
              ELSE IF start_stop_obj = None \/ end_stop_obj = None
                   THEN /\ req' = [r EXCEPT !.start_stop_obj = start_stop_obj,
                                            !.end_stop_obj = end_stop_obj,
                                            !.error_message = "no_route"]
                        /\ pc' = "sr_done"
                        /\ UNCHANGED <<route_searches, at_begin>>
                   ELSE /\ Len(route_searches) < MaxSearches
                        /\ route_searches' =
                               Append(route_searches, <<start_stop_obj, end_stop_obj>>)
                        /\ req' = [r EXCEPT
                                      !.start_stop_obj = start_stop_obj,
                                      !.end_stop_obj = end_stop_obj,
                                      !.search_count =
                                          Cardinality({i \in 1..Len(route_searches') :
                                              route_searches'[i] =
                                                  <<start_stop_obj, end_stop_obj>>})]
                        /\ at_begin' = [store |-> store, edits |-> edits]
                        /\ pc' = "sr_direct_exists"
    /\ UNCHANGED <<bus_stops, located, names, lookup, between, first_path,
                   store, edits, fsp, gsd>>

\* lines 462-463 and 517-536: the inputs, stripped; the two resolutions; the
\* RouteSearch row and the count of the rows of this pair.
search_route_begin ==
    /\ pc = "idle"
    /\ \E start_stop \in RouteQueryStrings, end_stop \in RouteQueryStrings :
          LET start_stop_name_raw == strip(start_stop)
              end_stop_name_raw == strip(end_stop)
              start_stop_obj == get_bus_stop_object(names, start_stop_name_raw)
              end_stop_obj == get_bus_stop_object(names, end_stop_name_raw)
              r == [NoRequest EXCEPT !.start_stop_name_raw = start_stop_name_raw,
                                     !.end_stop_name_raw = end_stop_name_raw]
          IN  IF start_stop_name_raw = <<>> \/ end_stop_name_raw = <<>>
              THEN /\ req' = [r EXCEPT !.error_message = "enter_both"]
                   /\ pc' = "sr_done"
                   /\ UNCHANGED <<route_searches, at_begin>>
              ELSE IF start_stop_obj = None \/ end_stop_obj = None
                   THEN /\ req' = [r EXCEPT !.start_stop_obj = start_stop_obj,
                                            !.end_stop_obj = end_stop_obj,
                                            !.error_message = "invalid_stop"]
                        /\ pc' = "sr_done"
                        /\ UNCHANGED <<route_searches, at_begin>>
                   ELSE /\ Len(route_searches) < MaxSearches
                        /\ route_searches' =
                               Append(route_searches, <<start_stop_obj, end_stop_obj>>)
                        /\ req' = [r EXCEPT
                                      !.start_stop_obj = start_stop_obj,
                                      !.end_stop_obj = end_stop_obj,
                                      !.search_count =
                                          Cardinality({i \in 1..Len(route_searches') :
                                              route_searches'[i] =
                                                  <<start_stop_obj, end_stop_obj>>})]
                        /\ at_begin' = [store |-> store, edits |-> edits]
                        /\ pc' = "sr_direct_exists"
    /\ UNCHANGED <<bus_stops, located, names, lookup, between, first_path,
                   store, edits, fsp, gsd>>

\* line 544: direct_bus_lines.exists()
search_route_direct_exists ==
    /\ pc = "sr_direct_exists"
    /\ LET found == LinesServingBoth(store, req.start_stop_obj, req.end_stop_obj) # {}
       IN  /\ req' = [req EXCEPT !.direct_exists = found]
           /\ pc' = IF found THEN "sr_direct_list" ELSE "sr_find_path"
    /\ UNCHANGED <<bus_stops, located, names, lookup, between, first_path, at_begin,
                   store, route_searches, edits, fsp, gsd>>

\* lines 545-553: the query is run again to iterate over the lines.
search_route_direct_list ==
    /\ pc = "sr_direct_list"
    /\ LET lines == direct_bus_lines(store, req.start_stop_obj, req.end_stop_obj)
       IN  req' = [req EXCEPT !.results =
                      [i \in 1..Len(lines) |->
                          DirectResult(lines[i], req.start_stop_obj, req.end_stop_obj)]]
    /\ pc' = "sr_done"
    /\ UNCHANGED <<bus_stops, located, names, lookup, between, first_path, at_begin,
                   store, route_searches, edits, fsp, gsd>>

\* search_route_find_path with the else branch of line 597 left out.
search_route_find_path_NoMessage ==
    /\ pc = "sr_find_path"
    /\ \E byLine \in segments_by_line(store) :
          LET f == find_shortest_path(bus_stops, byLine,
                                      req.start_stop_obj, req.end_stop_obj)
              r == [req EXCEPT !.path_searched = TRUE, !.graph = f.graph]
          IN  IF f.raised
              THEN req' = [r EXCEPT !.error_message = "exception"] /\ pc' = "sr_done"
              ELSE IF f.result = <<>>
                   THEN req' = r /\ pc' = "sr_done"
                   ELSE /\ req' = [r EXCEPT !.transfer_path = f.result,
                                            !.num_transfers = Len(f.result) - 1,
                                            !.leg = 1]
                        /\ pc' = "sr_leg_start"
    /\ UNCHANGED <<bus_stops, located, names, lookup, between, first_path, at_begin,
                   store, route_searches, edits, fsp, gsd>>

\* lines 555-559 and 597-600: the call of find_shortest_path and what follows
\* from its result. An exception raised inside is caught at line 599.
search_route_find_path ==
    /\ pc = "sr_find_path"
    /\ \E byLine \in segments_by_line(store) :
          LET f == find_shortest_path(bus_stops, byLine,
                                      req.start_stop_obj, req.end_stop_obj)
              r == [req EXCEPT !.path_searched = TRUE, !.graph = f.graph]
          IN  IF f.raised
              THEN req' = [r EXCEPT !.error_message = "exception"] /\ pc' = "sr_done"
              ELSE IF f.result = <<>>
                   THEN req' = [r EXCEPT !.error_message = "no_route"] /\ pc' = "sr_done"
                   ELSE /\ req' = [r EXCEPT !.transfer_path = f.result,
                                            !.num_transfers = Len(f.result) - 1,
                                            !.leg = 1]
                        /\ pc' = "sr_leg_start"
    /\ UNCHANGED <<bus_stops, located, names, lookup, between, first_path, at_begin,
                   store, route_searches, edits, fsp, gsd>>

\* line 357, for the leg at hand: start_segment
search_route_leg_start ==
    /\ pc = "sr_leg_start"
    /\ LET segment_info == req.transfer_path[req.leg]
       IN  req' = [req EXCEPT !.start_order =
                      FirstOrder(store, segment_info.line_id, segment_info.start_stop_id)]
    /\ pc' = "sr_leg_end"
    /\ UNCHANGED <<bus_stops, located, names, lookup, between, first_path, at_begin,
                   store, route_searches, edits, fsp, gsd>>

\* lines 358-361: end_segment; None is returned when either is missing, and
\* line 570 then leaves the leg out.
search_route_leg_end ==
    /\ pc = "sr_leg_end"
    /\ LET segment_info == req.transfer_path[req.leg]
           r == [req EXCEPT !.end_order =
                    FirstOrder(store, segment_info.line_id, segment_info.end_stop_id)]
       IN  IF r.start_order = None \/ r.end_order = None
           THEN req' = AfterLeg(r) /\ pc' = PcAfterLeg(r)
           ELSE req' = r /\ pc' = "sr_leg_slice"
    /\ UNCHANGED <<bus_stops, located, names, lookup, between, first_path, at_begin,
                   store, route_searches, edits, fsp, gsd>>

\* search_route_leg_slice that leaves out a leg whose distance is not available.
search_route_leg_slice_DropsUnavailable ==
    /\ pc = "sr_leg_slice"
    /\ LET segment_info == req.transfer_path[req.leg]
       IN  \E segments \in SliceRows(store, segment_info.line_id,
                                     req.start_order, req.end_order) :
              IF segments = <<>>
              THEN req' = AfterLeg(req) /\ pc' = PcAfterLeg(req)
              ELSE LET coords_list == route_stops_coords(segments, located)
                   IN  \E answer \in IF ProviderCalled(coords_list)
                                     THEN ProviderAnswers ELSE {NoAnswer} :
                          LET data == segment_data(segments, located, answer)
                              r == [req EXCEPT
                                      !.transfer_details =
                                          Append(@, LegDetails(data, segment_info.line_id,
                                                               segment_info.start_stop_id,
                                                               segment_info.end_stop_id)),
                                      !.total_distance =
                                          IF data.total_distance_km # NA
                                          THEN @ + data.total_distance_km ELSE @,
                                      !.total_time =
                                          IF data.total_time_minutes # NA
                                          THEN @ + data.total_time_minutes ELSE @,
                                      !.provider_calls = @ + ProviderRequests(coords_list, answer)]
                          IN  IF data.total_distance_km = NA
                              THEN req' = AfterLeg(req) /\ pc' = PcAfterLeg(req)
                              ELSE req' = AfterLeg(r) /\ pc' = PcAfterLeg(r)
    /\ UNCHANGED <<bus_stops, located, names, lookup, between, first_path, at_begin,
                   store, route_searches, edits, fsp, gsd>>

\* lines 363-408 and 570-582: the slice, the provider call, the leg appended.
search_route_leg_slice ==
    /\ pc = "sr_leg_slice"
    /\ LET segment_info == req.transfer_path[req.leg]
       IN  \E segments \in SliceRows(store, segment_info.line_id,
                                     req.start_order, req.end_order) :
              IF segments = <<>>
              THEN req' = AfterLeg(req) /\ pc' = PcAfterLeg(req)
              ELSE LET coords_list == route_stops_coords(segments, located)
                   IN  \E answer \in IF ProviderCalled(coords_list)
                                     THEN ProviderAnswers ELSE {NoAnswer} :
                          LET data == segment_data(segments, located, answer)
                              r == [req EXCEPT
                                      !.transfer_details =
                                          Append(@, LegDetails(data, segment_info.line_id,
                                                               segment_info.start_stop_id,
                                                               segment_info.end_stop_id)),
                                      !.total_distance =
                                          IF data.total_distance_km # NA
                                          THEN @ + data.total_distance_km ELSE @,
                                      !.total_time =
                                          IF data.total_time_minutes # NA
                                          THEN @ + data.total_time_minutes ELSE @,
                                      !.provider_calls = @ + ProviderRequests(coords_list, answer)]
                          IN  req' = AfterLeg(r) /\ pc' = PcAfterLeg(r)
    /\ UNCHANGED <<bus_stops, located, names, lookup, between, first_path, at_begin,
                   store, route_searches, edits, fsp, gsd>>

\* lines 725-736: the response is rendered and the request is over.
search_route_render ==
    /\ pc = "sr_done"
    /\ pc' = "idle"
    /\ req' = NoRequest
    /\ at_begin' = NoHistory
    /\ UNCHANGED <<bus_stops, located, names, lookup, between, first_path,
                   store, route_searches, edits, fsp, gsd>>

\* ------------------------------------- get_segment_details, called both ways
\* One call get_segment_details(bus_line, start_stop, end_stop) on the store.
get_segment_details_call ==
    /\ pc = "idle"
    /\ \E bus_line \in Lines, start_stop \in bus_stops, end_stop \in bus_stops :
       \E answer \in ProviderAnswers :
       \E data \in get_segment_details(store, located, bus_line,
                                       start_stop, end_stop, answer) :
          gsd' = [ bus_line |-> bus_line, start_stop |-> start_stop,
                   end_stop |-> end_stop, data |-> data, earlier |-> <<>> ]
    /\ pc' = "gsd_called"
    /\ UNCHANGED <<bus_stops, located, names, lookup, between, first_path, at_begin,
                   store, route_searches, edits, fsp, req>>

\* The call with the two stops exchanged, on the same store; the stop
\* sequence of the call before is kept beside its result.
get_segment_details_reverse ==
    /\ pc = "gsd_called"
    /\ \E answer \in ProviderAnswers :
       \E data \in get_segment_details(store, located, gsd.bus_line,
                                       gsd.end_stop, gsd.start_stop, answer) :
          gsd' = [ bus_line |-> gsd.bus_line, start_stop |-> gsd.end_stop,
                   end_stop |-> gsd.start_stop, data |-> data,
                   earlier |-> IF gsd.data = <<>> THEN <<>>
                               ELSE <<StopIds(gsd.data[1])>> ]
    /\ pc' = "gsd_reversed"
    /\ UNCHANGED <<bus_stops, located, names, lookup, between, first_path, at_begin,
                   store, route_searches, edits, fsp, req>>

get_segment_details_end ==
    /\ pc = "gsd_reversed"
    /\ pc' = "idle"
    /\ gsd' = NoSegmentCall
    /\ UNCHANGED <<bus_stops, located, names, lookup, between, first_path, at_begin,
                   store, route_searches, edits, fsp, req>>

\* ------------------------------------------------ find_stops_between, called
find_stops_between_call ==
    /\ pc = "idle"
    /\ \E start_stop \in bus_stops, end_stop \in bus_stops :
       \E results \in find_stops_between(store, start_stop, end_stop) :
          between' = [start_stop |-> start_stop, end_stop |-> end_stop,
                      results |-> results]
    /\ pc' = "fsb_called"
    /\ UNCHANGED <<bus_stops, located, names, lookup, first_path, at_begin,
                   store, route_searches, edits, fsp, gsd, req>>

find_stops_between_end ==
    /\ pc = "fsb_called"
    /\ pc' = "idle"
    /\ between' = NoBetween
    /\ UNCHANGED <<bus_stops, located, names, lookup, first_path, at_begin,
                   store, route_searches, edits, fsp, gsd, req>>

\* ------------------------------------------ find_shortest_path, called twice
\* One whole call of find_shortest_path on the store.
find_shortest_path_call ==
    /\ pc = "idle"
    /\ \E start_stop_id \in bus_stops, end_stop_id \in bus_stops :
       \E byLine \in segments_by_line(store) :
          fsp' = find_shortest_path(bus_stops, byLine, start_stop_id, end_stop_id)
    /\ pc' = "fsp_called"
    /\ UNCHANGED <<bus_stops, located, names, lookup, between, first_path, at_begin,
                   store, route_searches, edits, gsd, req>>

\* The same call again on the same store; the result of the call before is
\* kept in first_path.
find_shortest_path_again ==
    /\ pc = "fsp_called"
    /\ first_path' = fsp.result
    /\ \E byLine \in segments_by_line(store) :
          fsp' = find_shortest_path(bus_stops, byLine,
                                    fsp.start_stop_id, fsp.end_stop_id)
    /\ pc' = "fsp_again"
    /\ UNCHANGED <<bus_stops, located, names, lookup, between, at_begin,
                   store, route_searches, edits, gsd, req>>

find_shortest_path_twice_end ==
    /\ pc = "fsp_again"
    /\ pc' = "idle"
    /\ fsp' = NoSearch(None, None)
    /\ first_path' = <<>>
    /\ UNCHANGED <<bus_stops, located, names, lookup, between, at_begin,
                   store, route_searches, edits, gsd, req>>

NextScenario ==
    \/ concurrent_route_segment_add
    \/ concurrent_route_segment_delete
    \/ search_route_begin
    \/ search_route_direct_exists
    \/ search_route_direct_list
    \/ search_route_find_path
    \/ search_route_leg_start
    \/ search_route_leg_end
    \/ search_route_leg_slice
    \/ search_route_render
    \/ get_segment_details_call
    \/ get_segment_details_reverse
    \/ get_segment_details_end
    \/ find_stops_between_call
    \/ find_stops_between_end
    \/ find_shortest_path_call
    \/ find_shortest_path_again
    \/ find_shortest_path_twice_end

\* Route queries on the store of two lines while the admin changes up to
\* MaxEdits segments, and get_segment_details called both ways.
SpecScenario == InitScenario /\ [][NextScenario]_vars

\* ---- Stop resolution on stops the admin enters ----

\* The values of the form fields of admin_bus_stop_add: two names that differ
\* in case only and a third one; a road left out, left empty or given.
FormNamesEn == {<<"a">>, <<"A">>, <<"b">>}
FormNamesMm == {<<"a">>, <<"b">>}
FormRoads == {Null, Some(<<>>), Some(<<"r">>)}

InitResolve ==
    /\ bus_stops = {}
    /\ located = {}
    /\ names = <<>>
    /\ store = {}
    /\ route_searches = <<>>
    /\ edits = 0
    /\ pc = "idle"
    /\ fsp = NoSearch(None, None)
    /\ gsd = NoSegmentCall
    /\ req = NoRequest
    /\ lookup = NoLookup
    /\ between = NoBetween
    /\ first_path = <<>>
    /\ at_begin = NoHistory

\* BusStop.Meta.unique_together: the pairs (name_en, road_name_en) and
\* (name_mm, road_name_mm) are unique; a null road never collides.
UniqueTogether(nm, row) ==
    \A s \in DOMAIN nm :
        /\ ~(row.road_name_en # Null /\ nm[s].name_en = row.name_en
                /\ nm[s].road_name_en = row.road_name_en)
        /\ ~(row.road_name_mm # Null /\ nm[s].name_mm = row.name_mm
                /\ nm[s].road_name_mm = row.road_name_mm)

\* admin_bus_stop_add with both names given: the stop is saved under the next
\* primary key unless the database refuses it; the coordinates are kept only
\* when both are given.
admin_bus_stop_add ==
    /\ pc = "idle"
    /\ Cardinality(bus_stops) < MaxNamedStops
    /\ \E name_en \in FormNamesEn, name_mm \in FormNamesMm,
          road_name_en \in FormRoads, road_name_mm \in FormRoads,
          with_coords \in BOOLEAN :
          LET id == Cardinality(bus_stops) + 1
              bus_stop == [ name_en |-> name_en, name_mm |-> name_mm,
                            road_name_en |-> road_name_en,
                            road_name_mm |-> road_name_mm ]
          IN  /\ UniqueTogether(names, bus_stop)
              /\ bus_stops' = bus_stops \cup {id}
              /\ names' = [s \in bus_stops \cup {id} |->
                              IF s = id THEN bus_stop ELSE names[s]]
              /\ located' = IF with_coords THEN located \cup {id} ELSE located
    /\ UNCHANGED <<lookup, between, first_path, at_begin, store, route_searches,
                   edits, pc, fsp, gsd, req>>

\* The strings looked up: a bare name; a name with a road in brackets, also
\* with blanks inside the brackets; empty brackets; strings with a bracket
\* that is not a road qualifier.
QueryNames == {<<"a">>, <<"A">>, <<"b">>}
QueryRoads == {<<"r">>, <<"R">>, <<"b">>}
SearchStrings ==
    QueryNames
    \cup {n \o <<" ", "(">> \o r \o <<")">> : n \in QueryNames, r \in QueryRoads}
    \cup {n \o <<" ", "(", ")">> : n \in QueryNames}
    \cup { <<"a", "(", " ", "r", " ", ")">>,
           <<"a", "(", "r">>,
           <<"a", ")">>,
           <<"(", "r", ")">>,
           <<"a", "(", "(", "r", ")">> }

get_bus_stop_object_call ==
    /\ pc = "idle"
    /\ \E stop_name_raw \in SearchStrings :
          lookup' = [ stop_name_raw |-> stop_name_raw,
                      stop |-> get_bus_stop_object(names, stop_name_raw) ]
    /\ pc' = "gbo_called"
    /\ UNCHANGED <<bus_stops, located, names, between, first_path, at_begin,
                   store, route_searches, edits, fsp, gsd, req>>

get_bus_stop_object_end ==
    /\ pc = "gbo_called"
    /\ pc' = "idle"
    /\ lookup' = NoLookup
    /\ UNCHANGED <<bus_stops, located, names, between, first_path, at_begin,
                   store, route_searches, edits, fsp, gsd, req>>

NextResolve ==
    \/ admin_bus_stop_add
    \/ get_bus_stop_object_call
    \/ get_bus_stop_object_end

\* The admin enters up to MaxNamedStops stops and get_bus_stop_object is
\* called on them.
SpecResolve == InitResolve /\ [][NextResolve]_vars

\* ---- find_shortest_path both ways round, and view_saved_route ----

\* find_shortest_path called for the same two stops the other way round, on
\* the same store; the result of the call before is kept in first_path.
find_shortest_path_reverse ==
    /\ pc = "fsp_called"
    /\ first_path' = fsp.result
    /\ \E byLine \in segments_by_line(store) :
          fsp' = find_shortest_path(bus_stops, byLine,
                                    fsp.end_stop_id, fsp.start_stop_id)
    /\ pc' = "fsp_reversed"
    /\ UNCHANGED <<bus_stops, located, names, lookup, between, at_begin,
                   store, route_searches, edits, gsd, req>>

find_shortest_path_reverse_end ==
    /\ pc = "fsp_reversed"
    /\ pc' = "idle"
    /\ fsp' = NoSearch(None, None)
    /\ first_path' = <<>>
    /\ UNCHANGED <<bus_stops, located, names, lookup, between, at_begin,
                   store, route_searches, edits, gsd, req>>

\* view_saved_route, lines 200-229, for a saved route from start_stop to
\* end_stop on a store that stays as it is during the request: the direct
\* lines, the result of find_shortest_path, and the results list built from
\* the two.
view_saved_route ==
    /\ pc = "idle"
    /\ \E start_stop \in bus_stops, end_stop \in bus_stops :
       \E byLine \in segments_by_line(store) :
          LET direct_lines == direct_bus_lines(store, start_stop, end_stop)
              f == find_shortest_path(bus_stops, byLine, start_stop, end_stop)
              shortest_path == f.result
          IN  req' = [NoRequest EXCEPT
                         !.start_stop_obj = start_stop,
                         !.end_stop_obj = end_stop,
                         !.direct_exists = direct_lines # <<>>,
                         !.path_searched = TRUE,
                         !.graph = f.graph,
                         !.transfer_path = shortest_path,
                         !.results =
                             (IF direct_lines # <<>>
                              THEN << [type |-> "direct",
                                       bus_lines |-> direct_lines] >>
                              ELSE <<>>)
                             \o (IF shortest_path # <<>>
                                 THEN << [type |-> "shortest_path",
                                          path |-> shortest_path] >>
                                 ELSE <<>>)]
    /\ pc' = "vsr_done"
    /\ UNCHANGED <<bus_stops, located, names, lookup, between, first_path, at_begin,
                   store, route_searches, edits, fsp, gsd>>

\* lines 235-241: the page is rendered and the request is over.
view_saved_route_render ==
    /\ pc = "vsr_done"
    /\ pc' = "idle"
    /\ req' = NoRequest
    /\ UNCHANGED <<bus_stops, located, names, lookup, between, first_path, at_begin,
                   store, route_searches, edits, fsp, gsd>>

\* No two segments of a line share a stop or an order: the lines as the
\* admin form is meant to hold them.
PlainLines(S) ==
    \A r1 \in S, r2 \in S :
        (r1 # r2 /\ r1.bus_line = r2.bus_line) =>
            (r1.bus_stop # r2.bus_stop /\ r1.order # r2.order)

\* Every store of up to MaxSegments segments whose lines are plain.
InitViews ==
    /\ bus_stops = 1..NumStops
    /\ located = bus_stops
    /\ store \in {S \in SUBSET RouteSegment :
                     Cardinality(S) <= MaxSegments /\ PlainLines(S)}
    /\ route_searches = <<>>
    /\ edits = 0
    /\ pc = "idle"
    /\ fsp = NoSearch(None, None)
    /\ gsd = NoSegmentCall
    /\ req = NoRequest
    /\ names = PlainNames(bus_stops)
    /\ lookup = NoLookup
    /\ between = NoBetween
    /\ first_path = <<>>
    /\ at_begin = NoHistory

NextViews ==
    \/ find_shortest_path_call
    \/ find_shortest_path_reverse
    \/ find_shortest_path_reverse_end
    \/ view_saved_route
    \/ view_saved_route_render

\* On every store of plain lines, find_shortest_path is called both ways
\* round for every pair of stops and view_saved_route is run for every pair
\* of stops; the store stays as it is.
SpecViews == InitViews /\ [][NextViews]_vars

\* ------------------------------------------------- reference definitions
\* The edges (from, to, line) of a built graph, as a set.
GraphEdges(g) ==
    UNION {{<<s, g[s][i].stop_id, g[s][i].line_id>> : i \in 1..Len(g[s])} :
           s \in DOMAIN g}

\* The stops joined to a stop of S by a chain of edges.
RECURSIVE Connected(_, _)
Connected(E, S) ==
    LET T == S \cup {e[2] : e \in {d \in E : d[1] \in S}}
    IN  IF T = S THEN S ELSE Connected(E, T)

\* The (stop, line) pairs reached from those of S by riding on, line unchanged.
RECURSIVE Ride(_, _)
Ride(E, S) ==
    LET T == S \cup {<<e[2], e[3]>> : e \in {d \in E : <<d[1], d[3]>> \in S}}
    IN  IF T = S THEN S ELSE Ride(E, T)

\* Least number of line changes of a walk that has reached the pairs S with
\* k changes and ends at stop b.
RECURSIVE FewestFrom(_, _, _, _)
FewestFrom(E, S, k, b) ==
    IF \E p \in S : p[1] = b THEN k
    ELSE LET T == Ride(E, S \cup {<<e[2], e[3]>> :
                                    e \in {d \in E : \E p \in S : p[1] = d[1]}})
         IN  IF T = S THEN Inf ELSE FewestFrom(E, T, k + 1, b)

\* Least number of line changes over all walks from a to b (a # b).
FewestTransfers(g, a, b) ==
    FewestFrom(GraphEdges(g),
               Ride(GraphEdges(g), {<<e[2], e[3]>> : e \in {d \in GraphEdges(g) : d[1] = a}}),
               0, b)

\* find_shortest_path has returned from a call with two distinct stops.
SearchReturned == pc = "fsp_done" /\ fsp.start_stop_id # fsp.end_stop_id

EndConnected ==
    fsp.end_stop_id \in Connected(GraphEdges(fsp.graph), {fsp.start_stop_id})

\* ----------------------------------------------------------------- claims
\* C1: for two distinct stops connected in the route graph, the returned leg
\* sequence has legs - 1 equal to the least number of line changes over all
\* walks from start to end in the graph.
C1_FewestLineChanges ==
    (SearchReturned /\ EndConnected) =>
        /\ ~fsp.raised
        /\ Len(fsp.result) - 1 =
               FewestTransfers(fsp.graph, fsp.start_stop_id, fsp.end_stop_id)

\* C2: for two distinct stops the returned leg list is empty exactly when the
\* end stop is not connected to the start stop in the route graph, exactly
\* then the queue was exhausted without popping the end stop, and no
\* exception is raised.
C2_EmptyIffUnreachable ==
    SearchReturned =>
        /\ ~fsp.raised
        /\ (fsp.result = <<>>) <=> ~EndConnected
        /\ ~fsp.shortest_path_found <=> ~EndConnected
        /\ ~fsp.shortest_path_found => fsp.priority_queue = {}

\* The search left the start stop, ran dry and returned the empty list.
C2_Witness ==
    /\ SearchReturned
    /\ ~EndConnected
    /\ fsp.result = <<>>
    /\ \E s \in bus_stops : s # fsp.start_stop_id /\ fsp.distances[s] < Inf

\* C3: find_shortest_path(A, A) returns the empty path before any store read
\* is made and before any graph is built.
C3_SameStopReturnsAtOnce ==
    (pc = "fsp_done" /\ fsp.start_stop_id = fsp.end_stop_id) =>
        /\ fsp.result = <<>>
        /\ fsp.reads = 0
        /\ fsp.graph = <<>>
        /\ fsp.priority_queue = {}

C3_Witness ==
    /\ pc = "fsp_done"
    /\ fsp.start_stop_id = fsp.end_stop_id
    /\ \E s \in store : s.bus_stop = fsp.start_stop_id

\* C4: no returned path has two adjacent legs with the same line identity.
C4_AdjacentLegsDiffer ==
    pc = "fsp_done" =>
        \A i \in 1..(Len(fsp.result) - 1) :
            fsp.result[i].line_id # fsp.result[i + 1].line_id

\* Two predecessor steps on one line were merged into a single leg.
C4_Witness ==
    /\ pc = "fsp_done"
    /\ Len(fsp.result) = 1
    /\ fsp.reads = 4

\* A route query for two resolved stops has got past the direct-line check.
PastDirectCheck ==
    /\ pc \in {"sr_direct_list", "sr_find_path", "sr_leg_start", "sr_leg_end",
               "sr_leg_slice", "sr_done"}
    /\ req.start_stop_obj # None /\ req.end_stop_obj # None

\* C5: on the store of lines 10 and 20, left unchanged, the query from stop 1
\* to stop 4 finds no direct line, and find_shortest_path returns exactly the
\* legs (1, 3, line 10), (3, 4, line 20), so that the transfer count is 1.
C5_TwoLineScenario ==
    (PastDirectCheck /\ edits = 0 /\ store = ScenarioStore
        /\ req.start_stop_obj = 1 /\ req.end_stop_obj = 4) =>
        /\ ~req.direct_exists
        /\ pc # "sr_find_path" =>
              /\ req.path_searched
              /\ req.transfer_path =
                    << [start_stop_id |-> 1, end_stop_id |-> 3,
                        line_id |-> 1, line_number |-> 10],
                       [start_stop_id |-> 3, end_stop_id |-> 4,
                        line_id |-> 2, line_number |-> 20] >>
              /\ req.num_transfers = 1

C5_Witness ==
    /\ pc = "sr_done" /\ edits = 0 /\ store = ScenarioStore
    /\ req.start_stop_obj = 1 /\ req.end_stop_obj = 4
    /\ req.path_searched /\ Len(req.transfer_path) = 2
    /\ Len(req.results) = 1

\* C6: every transfer itinerary in the results of search_route has
\* num_transfers equal to the number of its legs (transfer_details) minus 1.
C6_TransferCountIsLegsMinusOne ==
    \A i \in 1..Len(req.results) :
        req.results[i].route_type = "transfer" =>
            req.results[i].num_transfers = Len(req.results[i].transfer_details) - 1

\* C7: when the direct-line check of a query for two resolved stops finds a
\* line with segments at both stops, the results are a non-empty list of
\* direct options, one per such line, and find_shortest_path is not called.
C7_DirectOptionsReported ==
    (pc = "sr_done" /\ req.direct_exists) =>
        /\ req.results # <<>>
        /\ \A i \in 1..Len(req.results) :
              req.results[i].route_type = "available_bus_line"
        /\ {req.results[i].bus_line_number : i \in 1..Len(req.results)} =
              {line_number(l) :
                  l \in LinesServingBoth(store, req.start_stop_obj, req.end_stop_obj)}
        /\ Len(req.results) =
              Cardinality(LinesServingBoth(store, req.start_stop_obj, req.end_stop_obj))
        /\ ~req.path_searched

\* C8: when the direct-line check of a query for two resolved, distinct stops
\* finds no line and the graph built by find_shortest_path has no walk from
\* the start to the end, the request ends with the "no route found" message
\* and an empty result list: no exception, no invalid-stop message.
C8_NoRouteFound ==
    (pc = "sr_done" /\ req.start_stop_obj # None /\ req.end_stop_obj # None
        /\ ~req.direct_exists) =>
        /\ req.path_searched
        /\ (/\ req.start_stop_obj # req.end_stop_obj
            /\ req.end_stop_obj \notin
                  Connected(GraphEdges(req.graph), {req.start_stop_obj})) =>
               /\ req.error_message = "no_route"
               /\ req.results = <<>>

C8_Witness ==
    /\ pc = "sr_done" /\ req.path_searched /\ ~req.direct_exists
    /\ req.start_stop_obj # req.end_stop_obj
    /\ req.end_stop_obj \notin Connected(GraphEdges(req.graph), {req.start_stop_obj})
    /\ req.error_message = "no_route"

\* The line of the call has a segment at each of the two stops of the call.
BothServed ==
    /\ FirstOrder(store, gsd.bus_line, gsd.start_stop) # None
    /\ FirstOrder(store, gsd.bus_line, gsd.end_stop) # None

\* C9: for a line and two stops X, Y it serves, the stop sequence returned by
\* get_segment_details for (X, Y) is the reverse of the one for (Y, X).
C9_SliceSymmetry ==
    (pc = "gsd_reversed" /\ BothServed) =>
        /\ gsd.data # <<>>
        /\ gsd.earlier # <<>>
        /\ StopIds(gsd.data[1]) = Reverse(gsd.earlier[1])

\* C10: for a line and two stops on it, get_segment_details returns exactly
\* the segments of the line whose order lies between the orders of the two
\* stops, both included, by increasing order when the start's order is at
\* most the end's and by decreasing order otherwise, so that the sequence
\* starts at the start stop and ends at the end stop.
C10_DirectionAwareSlice ==
    (pc = "gsd_called" /\ BothServed) =>
        /\ gsd.data # <<>>
        /\ LET stops == gsd.data[1].route_stops
               start_order == FirstOrder(store, gsd.bus_line, gsd.start_stop)
               end_order == FirstOrder(store, gsd.bus_line, gsd.end_stop)
               lo == IF start_order <= end_order THEN start_order ELSE end_order
               hi == IF start_order <= end_order THEN end_order ELSE start_order
           IN  /\ {<<stops[i].id, stops[i].order>> : i \in 1..Len(stops)} =
                     {<<r.bus_stop, r.order>> :
                         r \in {x \in SegmentsOfLine(store, gsd.bus_line) :
                                   x.order >= lo /\ x.order <= hi}}
               /\ Len(stops) =
                     Cardinality({x \in SegmentsOfLine(store, gsd.bus_line) :
                                     x.order >= lo /\ x.order <= hi})
               /\ \A i \in 1..(Len(stops) - 1) :
                     IF start_order <= end_order
                     THEN stops[i].order <= stops[i + 1].order
                     ELSE stops[i].order >= stops[i + 1].order
               /\ stops[1].id = gsd.start_stop
               /\ stops[Len(stops)].id = gsd.end_stop

\* C11: for every pair of stops, find_stops_between reports exactly the lines
\* serving both, and for each of them the stop sequence that
\* get_segment_details produces for that line and that (start, end) pair,
\* whichever of the two stops comes first on the line.
C11_BetweenMatchesExtractor ==
    pc = "fsb_called" =>
        /\ {between.results[i].bus_line : i \in 1..Len(between.results)} =
              LinesServingBoth(store, between.start_stop, between.end_stop)
        /\ \A i \in 1..Len(between.results) :
              \E data \in get_segment_details(store, located,
                                              between.results[i].bus_line,
                                              between.start_stop, between.end_stop,
                                              NoAnswer) :
                  /\ data # <<>>
                  /\ between.results[i].stops = StopIds(data[1])

\* No admin edit was committed since the route query at hand began.
StoreUnchangedSinceBegin == at_begin.edits = edits

\* C12: when find_shortest_path has returned a path and the store stays as it
\* is, search_route reports the transfer itinerary with every leg of the
\* path and transfer count legs - 1 whatever the provider answers on each
\* call; a leg without an answer has both its distance and its time
\* marked 'N/A' and nothing else changes.
C12_ProviderFailureKeepsItinerary ==
    (pc = "sr_done" /\ req.path_searched /\ req.transfer_path # <<>>
        /\ StoreUnchangedSinceBegin) =>
        /\ req.error_message = ""
        /\ Len(req.results) = 1
        /\ req.results[1].route_type = "transfer"
        /\ req.results[1].num_transfers = Len(req.transfer_path) - 1
        /\ LET legs == req.results[1].transfer_details
           IN  /\ Len(legs) = Len(req.transfer_path)
               /\ \A i \in 1..Len(legs) :
                     /\ legs[i].bus_line_number = req.transfer_path[i].line_number
                     /\ legs[i].start_stop = req.transfer_path[i].start_stop_id
                     /\ legs[i].end_stop = req.transfer_path[i].end_stop_id
                     /\ legs[i].stops_count = Len(legs[i].stops_on_this_segment)
                     /\ legs[i].stops_count >= 2
                     /\ (legs[i].distance_km = NA) <=> (legs[i].time_minutes = NA)

C12_Witness ==
    /\ pc = "sr_done" /\ StoreUnchangedSinceBegin
    /\ Len(req.transfer_path) = 2 /\ req.provider_calls = 2
    /\ Len(req.results) = 1
    /\ req.results[1].transfer_details[1].distance_km = NA
    /\ req.results[1].transfer_details[2].distance_km # NA

\* C13: the provider is asked at most once for each slice that was
\* extracted, also after a failure: during one request the number of
\* provider requests never exceeds the number of legs extracted so far, nor
\* the number of legs of the path.
C13_OneProviderCallPerSlice ==
    /\ req.provider_calls <= Len(req.transfer_details)
    /\ Len(req.transfer_details) <= Len(req.transfer_path)

C13_Witness ==
    /\ pc = "sr_done" /\ req.provider_calls = 2
    /\ Len(req.transfer_details) = 2
    /\ req.transfer_details[1].distance_km = NA
    /\ req.transfer_details[2].distance_km = NA

\* C14: a route query whose start and end resolve to the same stop reports
\* no leg and no transfer itinerary, and sends no request to the provider,
\* at any point of its handling and whatever admin edits run beside it.
C14_SameStopQuery ==
    (req.start_stop_obj # None /\ req.start_stop_obj = req.end_stop_obj) =>
        /\ req.transfer_path = <<>>
        /\ req.transfer_details = <<>>
        /\ req.num_transfers = 0
        /\ req.provider_calls = 0
        /\ \A i \in 1..Len(req.results) : req.results[i].route_type # "transfer"

C14_Witness ==
    /\ pc = "sr_done"
    /\ req.start_stop_obj # None /\ req.start_stop_obj = req.end_stop_obj
    /\ req.path_searched

\* C15: find_shortest_path called twice for the same start and end on a
\* store that did not change in between returns the same legs (stops and
\* lines, in the same order), hence the same transfer count.
C15_SearchIsRepeatable ==
    pc = "fsp_again" =>
        /\ fsp.result = first_path
        /\ Len(fsp.result) - 1 = Len(first_path) - 1

\* What a leg of an itinerary says apart from the provider's figures: the
\* line, the two ends and the stops in between.
ReportedLeg(leg) ==
    [ bus_line_number |-> leg.bus_line_number,
      start_stop |-> leg.start_stop,
      end_stop |-> leg.end_stop,
      stops |-> [i \in 1..Len(leg.stops_on_this_segment) |->
                    leg.stops_on_this_segment[i].id] ]

ReportedResult(x) ==
    IF x.route_type = "transfer"
    THEN [ route_type |-> "transfer",
           num_transfers |-> x.num_transfers,
           legs |-> [i \in 1..Len(x.transfer_details) |->
                        ReportedLeg(x.transfer_details[i])] ]
    ELSE [ route_type |-> x.route_type,
           bus_line_number |-> x.bus_line_number,
           start_stop_id |-> x.start_stop_id,
           end_stop_id |-> x.end_stop_id ]

ReportedItinerary(r) ==
    [ error_message |-> r.error_message,
      results |-> [i \in 1..Len(r.results) |-> ReportedResult(r.results[i])] ]

\* The leg sequences the loop of line 562 can produce for the legs i.. of
\* path when every get_segment_details call reads the one store st.
RECURSIVE LegsOn(_, _, _, _)
LegsOn(st, loc, path, i) ==
    IF i > Len(path) THEN {<<>>}
    ELSE LET info == path[i]
             datas == get_segment_details(st, loc, info.line_id, info.start_stop_id,
                                          info.end_stop_id, NoAnswer)
             heads == {IF d = <<>> THEN <<>>
                       ELSE << [ bus_line_number |-> info.line_number,
                                 start_stop |-> info.start_stop_id,
                                 end_stop |-> info.end_stop_id,
                                 stops |-> StopIds(d[1]) ] >> : d \in datas}
         IN  {h \o rest : h \in heads, rest \in LegsOn(st, loc, path, i + 1)}

\* Every itinerary a route query from a to b can report when all of its
\* reads see the one store st.
ItinerariesOn(st, loc, all_stops, a, b) ==
    IF LinesServingBoth(st, a, b) # {}
    THEN LET lines == direct_bus_lines(st, a, b)
         IN  {[ error_message |-> "",
                results |-> [i \in 1..Len(lines) |->
                                ReportedResult(DirectResult(lines[i], a, b))] ]}
    ELSE UNION { LET f == find_shortest_path(all_stops, byLine, a, b)
                 IN  IF f.raised
                     THEN {[error_message |-> "exception", results |-> <<>>]}
                     ELSE IF f.result = <<>>
                          THEN {[error_message |-> "no_route", results |-> <<>>]}
                          ELSE {IF legs = <<>>
                                THEN [error_message |-> "no_valid_transfer",
                                      results |-> <<>>]
                                ELSE [error_message |-> "",
                                      results |-> << [ route_type |-> "transfer",
                                                       num_transfers |-> Len(f.result) - 1,
                                                       legs |-> legs ] >>] :
                                  legs \in LegsOn(st, loc, f.result, 1)}
                 : byLine \in segments_by_line(st) }

\* C16: the itinerary a route query reports (options, legs, stop sequences,
\* transfer count) is one that the query computes when all its reads see
\* the store as it was when the request began, or one it computes when all
\* its reads see the store as it is when the request ends.
C16_OneConsistentStore ==
    (pc = "sr_done" /\ req.start_stop_obj # None /\ req.end_stop_obj # None) =>
        ReportedItinerary(req) \in
            ItinerariesOn(at_begin.store, located, bus_stops,
                          req.start_stop_obj, req.end_stop_obj)
            \cup ItinerariesOn(store, located, bus_stops,
                               req.start_stop_obj, req.end_stop_obj)

\* C17 (as claimed): no step of the handling of a route query creates,
\* changes or deletes a stored record of any kind; the only steps that
\* write are the admin edits.
C17_ReadOnlyStore ==
    [][edits' = edits =>
          UNCHANGED <<bus_stops, located, names, store, route_searches>>]_vars

\* C17 (amended): no step of the handling of a route query creates, changes
\* or deletes a stop, a line or a segment; the one record a query writes is
\* a RouteSearch row of its start and end stop, appended once, when both
\* stops resolved and before any route is looked for.
C17_WritesOnlySearchLog ==
    [][edits' = edits =>
          /\ UNCHANGED <<bus_stops, located, names, store>>
          /\ \/ route_searches' = route_searches
             \/ /\ pc = "idle" /\ pc' = "sr_direct_exists"
                /\ req'.start_stop_obj # None /\ req'.end_stop_obj # None
                /\ route_searches' =
                      Append(route_searches, <<req'.start_stop_obj, req'.end_stop_obj>>)]_vars

C17_Witness ==
    /\ pc = "sr_done"
    /\ req.results # <<>>
    /\ route_searches = <<<<req.start_stop_obj, req.end_stop_obj>>>>
    /\ store = ScenarioStore

\* Equality of two strings up to the case of their letters, by upper-casing.
Upper(c) == IF c = "a" THEN "A" ELSE IF c = "r" THEN "R" ELSE c

EqualIgnoringCase(x, y) ==
    [i \in 1..Len(x) |-> Upper(x[i])] = [i \in 1..Len(y) |-> Upper(y[i])]

\* The stops that carry the name and the road in one language.
StopsWithNameAndRoad(stop_name, road_name) ==
    {s \in bus_stops :
        \/ /\ EqualIgnoringCase(names[s].name_en, stop_name)
           /\ names[s].road_name_en # Null
           /\ EqualIgnoringCase(names[s].road_name_en[1], road_name)
        \/ /\ EqualIgnoringCase(names[s].name_mm, stop_name)
           /\ names[s].road_name_mm # Null
           /\ EqualIgnoringCase(names[s].road_name_mm[1], road_name)}

\* The stops that carry the name in either language.
StopsWithName(stop_name) ==
    {s \in bus_stops : \/ EqualIgnoringCase(names[s].name_en, stop_name)
                       \/ EqualIgnoringCase(names[s].name_mm, stop_name)}

\* The stops that carry the name in a language in which their road is
\* absent or empty.
StopsWithNameAndNoRoad(stop_name) ==
    {s \in bus_stops :
        \/ /\ EqualIgnoringCase(names[s].name_en, stop_name)
           /\ (names[s].road_name_en = Null \/ names[s].road_name_en = Some(<<>>))
        \/ /\ EqualIgnoringCase(names[s].name_mm, stop_name)
           /\ (names[s].road_name_mm = Null \/ names[s].road_name_mm = Some(<<>>))}

\* The string looked up carries a road: it parses to a road that is not empty.
HasRoadQualifier(full_name) ==
    LET p == parse_stop_name_with_road(full_name)
    IN  p.road_name # Null /\ p.road_name[1] # <<>>

\* C18: for a string 'Name (Road)', when some stop carries both the name
\* and the road (case-insensitive, in one language), get_bus_stop_object
\* returns a stop that carries both, not a stop that has the name only.
C18_RoadQualifierHonoured ==
    (pc = "gbo_called" /\ HasRoadQualifier(lookup.stop_name_raw)) =>
        LET p == parse_stop_name_with_road(lookup.stop_name_raw)
            both == StopsWithNameAndRoad(p.stop_name, p.road_name[1])
        IN  both # {} => lookup.stop \in both

C18_Witness ==
    /\ pc = "gbo_called" /\ HasRoadQualifier(lookup.stop_name_raw)
    /\ LET p == parse_stop_name_with_road(lookup.stop_name_raw)
       IN  /\ lookup.stop \in StopsWithNameAndRoad(p.stop_name, p.road_name[1])
           /\ \E s \in StopsWithName(p.stop_name) : s < lookup.stop

\* C19: for a string without a road qualifier, get_bus_stop_object returns
\* a stop with that name and an empty or absent road whenever there is one,
\* otherwise a stop with that name whatever its road, and None exactly when
\* no stop has that name in either language.
C19_NoRoadPreferred ==
    (pc = "gbo_called" /\ ~HasRoadQualifier(lookup.stop_name_raw)) =>
        LET stop_name == parse_stop_name_with_road(lookup.stop_name_raw).stop_name
            no_road == StopsWithNameAndNoRoad(stop_name)
            by_name == StopsWithName(stop_name)
        IN  /\ no_road # {} => lookup.stop \in no_road
            /\ (no_road = {} /\ by_name # {}) => lookup.stop \in by_name
            /\ lookup.stop = None <=> by_name = {}

C19_Witness ==
    /\ pc = "gbo_called" /\ ~HasRoadQualifier(lookup.stop_name_raw)
    /\ LET stop_name == parse_stop_name_with_road(lookup.stop_name_raw).stop_name
       IN  /\ lookup.stop \in StopsWithNameAndNoRoad(stop_name)
           /\ \E s \in StopsWithName(stop_name) \ StopsWithNameAndNoRoad(stop_name) :
                 s < lookup.stop

\* C20: in a bus_stop-mode query with both strings given, a stop string that
\* does not resolve ends the request with the invalid-stop message before
\* the direct-line check and find_shortest_path; the no-route message is
\* given only when both stops resolved and the search ran, and the
\* invalid-stop message only when a stop did not resolve.
C20_NotFoundVersusNoRoute ==
    LET unresolved == req.start_stop_obj = None \/ req.end_stop_obj = None
    IN  /\ pc \in {"sr_direct_exists", "sr_direct_list", "sr_find_path",
                   "sr_leg_start", "sr_leg_end", "sr_leg_slice"} => ~unresolved
        /\ (pc = "sr_done" /\ req.start_stop_name_raw # <<>>
               /\ req.end_stop_name_raw # <<>> /\ unresolved) =>
              /\ req.error_message = "invalid_stop"
              /\ ~req.direct_exists /\ ~req.path_searched
              /\ req.results = <<>>
        /\ (pc = "sr_done" /\ req.error_message = "no_route") =>
              ~unresolved /\ req.path_searched
        /\ (pc = "sr_done" /\ req.error_message = "invalid_stop") => unresolved

C20_Witness ==
    /\ pc = "sr_done"
    /\ req.error_message = "invalid_stop"
    /\ req.start_stop_obj # None /\ req.end_stop_obj = None
    /\ req.end_stop_name_raw # <<>>

\* The entry popped by the iteration of the search loop that starts in f.
Popped(f) == HeapTop(f.priority_queue)

\* C21: in one iteration of the search loop, a stop whose recorded cost
\* changes gets the cost of the popped entry plus 0 over an edge of the
\* popped entry's line (or when the popped entry has no line), or plus 1
\* over an edge of another line, with that edge as its predecessor; the
\* recorded costs change in no other way.
C21_RelaxationCost ==
    [][(pc = "fsp_search" /\ pc' = "fsp_search") =>
          \A n \in bus_stops :
              (fsp'.distances[n] # fsp.distances[n]
                  \/ fsp'.predecessors[n] # fsp.predecessors[n]) =>
                 LET top == Popped(fsp)
                     edges == fsp.graph[top[2]]
                 IN  \E i \in 1..Len(edges) :
                        /\ edges[i].stop_id = n
                        /\ fsp'.predecessors[n] = <<top[2], edges[i].line_id>>
                        /\ fsp'.distances[n] =
                              IF top[3] = None \/ top[3] = edges[i].line_id
                              THEN top[1] ELSE top[1] + 1
                        /\ fsp'.distances[n] < fsp.distances[n]]_vars

\* The search has recorded a cost without a change of line and a cost with one.
C21_Witness ==
    /\ pc = "fsp_search"
    /\ \E n, m \in bus_stops :
          /\ n # fsp.start_stop_id /\ fsp.distances[n] = 0
          /\ fsp.predecessors[n][1] = fsp.start_stop_id
          /\ fsp.distances[m] = 1
          /\ fsp.predecessors[m][1] = n

\* A call of find_shortest_path has built its graph and not yet returned to
\* the caller.
GraphBuilt == pc \in {"fsp_search", "fsp_reconstruct", "fsp_done"} /\ fsp.graph # <<>>

\* The (a, b, line) triples of stops at adjacent positions of the sequence
\* segments of line l, both ways round.
AdjacentPairs(segments, l) ==
    {<<segments[i].bus_stop, segments[i + 1].bus_stop, l>> :
        i \in 1..(Len(segments) - 1)}
    \cup {<<segments[i + 1].bus_stop, segments[i].bus_stop, l>> :
        i \in 1..(Len(segments) - 1)}

\* C22: the graph of find_shortest_path has an edge (a, b, line) exactly
\* when a and b are at adjacent positions of that line's segments sorted by
\* order (in one of the sorted sequences when orders tie), and with every
\* edge (a, b, line) it has the edge (b, a, line).
C22_GraphIsLineAdjacency ==
    GraphBuilt =>
        LET E == GraphEdges(fsp.graph)
        IN  /\ \A l \in Lines :
                  \E segments \in OrderedAsc(SegmentsOfLine(store, l)) :
                      {e \in E : e[3] = l} = AdjacentPairs(segments, l)
            /\ \A e \in E : e[3] \in Lines /\ <<e[2], e[1], e[3]>> \in E

\* The graph of a line of three stops and a second line crossing it.
C22_Witness ==
    /\ GraphBuilt
    /\ \E a, b, c \in bus_stops :
          /\ a # b /\ b # c /\ a # c
          /\ {<<a, b, 1>>, <<b, c, 1>>, <<a, c, 2>>} \subseteq GraphEdges(fsp.graph)
          /\ <<a, c, 1>> \notin GraphEdges(fsp.graph)

\* The heap entry pushed when the cost now recorded for stop s was recorded.
BestEntry(f, s) ==
    <<f.distances[s], s, IF s = f.start_stop_id THEN None ELSE f.predecessors[s][2]>>

\* Stop s is finalized: a cost is recorded for it and the entry carrying
\* that cost has been popped.
Finalized(f, s) ==
    /\ f.distances[s] < Inf
    /\ BestEntry(f, s) \notin f.priority_queue

\* C23: an iteration that pops an entry whose cost equals the recorded best
\* of its stop finalizes that stop; from then on, through the rest of the
\* search and the reconstruction, the recorded cost and predecessor of a
\* finalized stop stay as they are, and the reconstruction reads the
\* predecessor of finalized stops only.
C23_FinalizedStaysFixed ==
    [][(pc \in {"fsp_search", "fsp_reconstruct"} /\ pc' # "idle") =>
          /\ (pc = "fsp_search" /\ fsp.priority_queue # {} /\ fsp' # fsp
                 /\ ~fsp.shortest_path_found
                 /\ Popped(fsp)[1] = fsp.distances[Popped(fsp)[2]]) =>
                /\ Finalized(fsp', Popped(fsp)[2])
                /\ fsp'.distances[Popped(fsp)[2]] = Popped(fsp)[1]
          /\ \A s \in bus_stops :
                Finalized(fsp, s) =>
                   /\ Finalized(fsp', s)
                   /\ fsp'.distances[s] = fsp.distances[s]
                   /\ fsp'.predecessors[s] = fsp.predecessors[s]
          /\ pc = "fsp_reconstruct" => Finalized(fsp, fsp.current_stop_id)]_vars

\* A finalized stop is offered its recorded cost again over another line,
\* and the reconstruction is about to read its predecessor.
C23_Witness ==
    /\ pc = "fsp_reconstruct"
    /\ \E s \in bus_stops \ {fsp.start_stop_id} :
          /\ Finalized(fsp, s)
          /\ fsp.current_stop_id = s
          /\ \E i \in 1..Len(fsp.graph[fsp.predecessors[s][1]]) :
                LET e == fsp.graph[fsp.predecessors[s][1]][i]
                IN  e.stop_id = s /\ e.line_id # fsp.predecessors[s][2]

\* The predecessor chain from stop s reaches start through stops that each
\* have a recorded predecessor, without coming back to a stop of seen.
RECURSIVE ChainReachesStart(_, _, _, _)
ChainReachesStart(predecessors, s, start, seen) ==
    IF s = start THEN TRUE
    ELSE IF s \in seen \/ predecessors[s][1] = None THEN FALSE
    ELSE ChainReachesStart(predecessors, predecessors[s][1], start, seen \cup {s})

\* C24: once the search has popped the end stop, the predecessor chain from
\* the end stop reaches the start stop, every stop on it but the start has a
\* recorded predecessor and none is met twice; the reconstruction never
\* takes the missing-predecessor branch.
C24_PredecessorChainComplete ==
    (pc \in {"fsp_search", "fsp_reconstruct", "fsp_done"} /\ fsp.shortest_path_found) =>
        /\ ChainReachesStart(fsp.predecessors, fsp.end_stop_id, fsp.start_stop_id, {})
        /\ ChainReachesStart(fsp.predecessors, fsp.current_stop_id, fsp.start_stop_id, {})
        /\ ~fsp.raised

\* The reconstruction has walked a chain of three stops back to the start.
C24_Witness ==
    /\ pc = "fsp_reconstruct"
    /\ fsp.current_stop_id = fsp.start_stop_id
    /\ fsp.predecessors[fsp.end_stop_id][1] \notin {None, fsp.start_stop_id}
    /\ fsp.predecessors[fsp.predecessors[fsp.end_stop_id][1]][1] = fsp.start_stop_id

\* The changes of line along the predecessor chain from stop s back to
\* start, line being the line of the step taken last (None at the end stop).
RECURSIVE ChainTransfers(_, _, _, _)
ChainTransfers(predecessors, s, start, line) ==
    IF s = start \/ predecessors[s][1] = None THEN 0
    ELSE (IF line # None /\ line # predecessors[s][2] THEN 1 ELSE 0)
         + ChainTransfers(predecessors, predecessors[s][1], start, predecessors[s][2])

\* C25: a non-empty path returned by find_shortest_path has legs - 1 equal
\* to the recorded best cost of the end stop, the cost with which it was
\* popped, and equal to the changes of line along the predecessor chain.
C25_LegsAgreeWithCost ==
    (pc = "fsp_done" /\ fsp.result # <<>>) =>
        /\ Len(fsp.result) - 1 = fsp.distances[fsp.end_stop_id]
        /\ Len(fsp.result) - 1 =
              ChainTransfers(fsp.predecessors, fsp.end_stop_id, fsp.start_stop_id, None)

\* A path of two legs returned for an end stop popped with cost 1.
C25_Witness ==
    /\ pc = "fsp_done"
    /\ Len(fsp.result) = 2
    /\ fsp.distances[fsp.end_stop_id] = 1
    /\ fsp.result[1].line_id # fsp.result[2].line_id

\* The edges of E tagged with line l.
EdgesOfLine(E, l) == {e \in E : e[3] = l}

\* C26: a non-empty path returned by find_shortest_path(start, end) starts
\* at start, ends at end, each leg ends where the next one starts, and the
\* two distinct ends of each leg are joined by a chain of graph edges all
\* tagged with the leg's line.
C26_PathIsConnectedWalk ==
    (pc = "fsp_done" /\ fsp.result # <<>>) =>
        LET path == fsp.result
            E == GraphEdges(fsp.graph)
        IN  /\ path[1].start_stop_id = fsp.start_stop_id
            /\ path[Len(path)].end_stop_id = fsp.end_stop_id
            /\ \A i \in 1..(Len(path) - 1) :
                  path[i].end_stop_id = path[i + 1].start_stop_id
            /\ \A i \in 1..Len(path) :
                  /\ path[i].start_stop_id # path[i].end_stop_id
                  /\ path[i].line_id \in Lines
                  /\ path[i].line_number = line_number(path[i].line_id)
                  /\ path[i].end_stop_id \in
                        Connected(EdgesOfLine(E, path[i].line_id), {path[i].start_stop_id})

\* A single leg whose two ends are not neighbours on its line.
C26_Witness ==
    /\ pc = "fsp_done"
    /\ Len(fsp.result) = 1
    /\ <<fsp.start_stop_id, fsp.end_stop_id, fsp.result[1].line_id>>
          \notin GraphEdges(fsp.graph)

\* The sum of the recorded costs of the stops 1..n.
RECURSIVE TotalCost(_, _)
TotalCost(distances, n) ==
    IF n = 0 THEN 0 ELSE distances[n] + TotalCost(distances, n - 1)

\* The steps of the predecessor chain from stop s back to start; Inf when
\* the chain breaks off or comes back to a stop of seen.
RECURSIVE ChainLength(_, _, _, _)
ChainLength(predecessors, s, start, seen) ==
    IF s = start THEN 0
    ELSE IF s \in seen \/ predecessors[s][1] = None THEN Inf
    ELSE LET rest == ChainLength(predecessors, predecessors[s][1], start, seen \cup {s})
         IN  IF rest = Inf THEN Inf ELSE rest + 1

\* C27: every call of find_shortest_path returns: each entry pushed by an
\* iteration of the search loop carries a cost strictly below the cost
\* recorded for its stop before, an iteration that pushes nothing shortens
\* the queue, each step of the reconstruction shortens the predecessor
\* chain left to walk, and a call that has begun its search gets to its
\* return.
C27_Terminates ==
    /\ [][(pc = "fsp_search" /\ pc' = "fsp_search") =>
             /\ \A e \in fsp'.priority_queue \ fsp.priority_queue :
                   e[1] < fsp.distances[e[2]] /\ fsp'.distances[e[2]] <= e[1]
             /\ \/ TotalCost(fsp'.distances, NumStops) < TotalCost(fsp.distances, NumStops)
                \/ /\ fsp'.distances = fsp.distances
                   /\ Cardinality(fsp'.priority_queue) < Cardinality(fsp.priority_queue)]_vars
    /\ [][(pc = "fsp_reconstruct" /\ pc' = "fsp_reconstruct"
              /\ fsp'.current_stop_id # fsp.current_stop_id) =>
             ChainLength(fsp.predecessors, fsp'.current_stop_id, fsp.start_stop_id, {})
                < ChainLength(fsp.predecessors, fsp.current_stop_id,
                              fsp.start_stop_id, {})]_vars
    /\ (pc = "fsp_search") ~> (pc = "fsp_done")

\* A search that pushed three entries and popped them all has returned.
C27_Witness ==
    /\ pc = "fsp_done"
    /\ fsp.start_stop_id # fsp.end_stop_id
    /\ fsp.priority_queue = {}
    /\ \A s \in bus_stops : fsp.distances[s] < Inf
    /\ \E s \in bus_stops : fsp.distances[s] = 1

\* C28: for two distinct stops A and B, find_shortest_path(A, B) and
\* find_shortest_path(B, A) on the same store return paths with the same
\* number of legs.
C28_SameLegsBothWays ==
    (pc = "fsp_reversed" /\ fsp.start_stop_id # fsp.end_stop_id) =>
        Len(fsp.result) = Len(first_path)

\* C29: in view_saved_route, whenever some line serves both the start and
\* the end stop and the two differ, the path of find_shortest_path shown
\* beside the direct lines has exactly one leg.
C29_DirectLineGivesOneLeg ==
    (pc = "vsr_done" /\ req.start_stop_obj # req.end_stop_obj /\ req.direct_exists) =>
        Len(req.transfer_path) = 1

\* C30: every search_route request of search_type bus_stop ends either with
\* a non-empty result list and no error message, or with an empty result
\* list and an error message; never with both empty or both present.
C30_ResultsOrMessage ==
    pc = "sr_done" =>
        \/ req.results # <<>> /\ req.error_message = ""
        \/ req.results = <<>> /\ req.error_message # ""

====
